---- MODULE Spec2Model ----
(***************************************************************************)
(* PID-Convert_DU: the DUCI plug-in that converts Gruntz (1999) .PID       *)
(* images to BMP, TGA and PNG.                                             *)
(*                                                                         *)
(* The module models ConvertPID (pid_convert.cpp) stage by stage, the      *)
(* three encoders SaveToBMP, SaveToTGA and SaveToPNG, the stream wrapper   *)
(* DelphiTStreamWrapper (delphiTStreamWrapper.h) in front of the host's    *)
(* source and destination streams, the configuration dialog that sets     *)
(* g_default_PNG_Mode, and the host's questions about a file name,         *)
(* IsFileCompatible and GetFileConvert.                                    *)
(*                                                                         *)
(* Numbers: TLC's integers are 32 bits wide and signed.  An int of the     *)
(* program is an integer of the model.  A size_t of the 32-bit x86 build   *)
(* (the wrapper's inline assembly exists for no other target) that can     *)
(* exceed 2^31-1 is kept as a pair <<high 16 bits, low 16 bits>>.          *)
(***************************************************************************)
EXTENDS Integers, Sequences, FiniteSets, TLC

\* ------------------------------------------------------------------------
\* Bounds of the model (not program constants)
\* ------------------------------------------------------------------------
\* longest pixel-data block of the decoder's inputs
MaxBody == 3
\* the cells of the longest raster the decoder's inputs ask for
MaxCells == 5
\* largest width and height of the exhaustively enumerated small images
MaxDim == 2
\* the destination may run full within the first MaxRoomHead bytes ...
MaxRoomHead == 3
\* ... or within the last MaxRoomTail bytes of what an encoder writes
MaxRoomTail == 2

\* ------------------------------------------------------------------------
\* Program constants
\* ------------------------------------------------------------------------
\* sizeof(PIDHeader): eight packed 32-bit ints
HeaderSize == 32
\* header.ID of a PID file
PID_MAGIC == 10
\* bytes of an embedded palette (256 RGB triples), sought from the end
PaletteBytes == 768
\* offset of the pixel data
PixelDataOffset == 32
\* 1ULL << 30, the ceiling of pixel_count
MaxPixelCount == 1073741824
\* SIZE_MAX, the decoder's failure sentinel: 2^32-1, written as its 32-bit
\* two's-complement image because 2^32-1 is no TLC integer
SIZE_MAX == -1
\* grammar A: control bytes above this are fill runs
RleFillAbove == 128
\* grammar B: control bytes above this are repeat runs
RawRunAbove == 192

Two16 == 65536
Byte == 0..255

\* ------------------------------------------------------------------------
\* Arithmetic of the 32-bit target
\* ------------------------------------------------------------------------
Min(a, b) == IF a < b THEN a ELSE b
Max(a, b) == IF a < b THEN b ELSE a

\* the four bytes of a 32-bit int in memory, little-endian (x86)
Int32Bytes(v) ==
  LET hi == (v \div Two16) % Two16
      lo == v % Two16
  IN  << lo % 256, lo \div 256, hi % 256, hi \div 256 >>

\* the int stored in four little-endian bytes
BytesToInt32(b) ==
  LET lo == b[1] + 256 * b[2]
      hi == b[3] + 256 * b[4]
  IN  IF hi >= 32768 THEN (hi - Two16) * Two16 + lo ELSE hi * Two16 + lo

\* (header.Flags & mask) != 0 for a one-bit mask
FlagSet(flags, mask) == ((flags % 256) \div mask) % 2 = 1

\* static_cast<size_t>(w) * static_cast<size_t>(h) for w, h > 0, modulo 2^32,
\* as the pair <<high 16 bits, low 16 bits>>
SizeMul(w, h) ==
  LET wl == w % Two16
      wh == w \div Two16
      hl == h % Two16
      hh == h \div Two16
      \* wl * hl < 2^32, taken in two halves of hl
      t0 == wl * (hl % 256)
      t1 == wl * (hl \div 256)
      low == (t1 % 256) * 256 + t0
      carry == (t1 \div 256) + (low \div Two16)
      cross == ((wh * hl) % Two16) + ((wl * hh) % Two16)
  IN  << (carry + cross) % Two16, low % Two16 >>

\* pixel_count > (1ULL << 30)
ExceedsCeiling(pc) ==
  \/ pc[1] > MaxPixelCount \div Two16
  \/ (pc[1] = MaxPixelCount \div Two16 /\ pc[2] > MaxPixelCount % Two16)

\* the value of a size_t pair known not to exceed 2^30
SizeVal(pc) == pc[1] * Two16 + pc[2]

\* ------------------------------------------------------------------------
\* The host's source stream: a PID file
\* ------------------------------------------------------------------------
\* A file is its eight header ints (the four reserved ones all hold U), the
\* pixel-data block `body`, `padLen` trailing bytes (where an embedded
\* palette lives) and `cut`, the size of a truncated copy (-1: not
\* truncated).  `bad` is the offset of the first byte the host cannot read
\* (an I/O error; -1: none).  seekOK = FALSE is a host stream whose Seek
\* fails.
\* the i-th trailing byte (i = 0, 1, ...)
PadByte(i) == (7 * i + 3) % 256

FileSize(f) ==
  IF f.cut >= 0 THEN f.cut ELSE HeaderSize + Len(f.body) + f.padLen

\* struct PIDHeader { int ID; int Flags; int Width; int Height; int U[4]; }
PIDHeaderField(f, k) ==
  CASE k = 0 -> f.ID
    [] k = 1 -> f.Flags
    [] k = 2 -> f.Width
    [] k = 3 -> f.Height
    [] OTHER -> f.U[k - 3]

\* the byte at offset off (0 <= off < FileSize(f))
FileByte(f, off) ==
  IF off < HeaderSize
    THEN Int32Bytes(PIDHeaderField(f, off \div 4))[(off % 4) + 1]
    ELSE IF off < HeaderSize + Len(f.body)
      THEN f.body[off - HeaderSize + 1]
      ELSE PadByte(off - HeaderSize - Len(f.body))

\* ------------------------------------------------------------------------
\* DelphiTStreamWrapper over the source stream
\* ------------------------------------------------------------------------
\* TStream.Read of the host at position p: the bytes it delivers
HostRead(f, p, count) ==
  LET end == IF f.bad >= 0 THEN Min(f.bad, FileSize(f)) ELSE FileSize(f)
      n == Max(0, Min(count, end - p))
  IN  [k \in 1..n |-> FileByte(f, p + k - 1)] \o << >>

\* DelphiTStreamWrapper::read: the bytes read; their number is the result
\* (0 for count = 0 without calling the host)
read(f, p, count) ==
  IF count = 0 THEN << >> ELSE HostRead(f, p, count)

\* DelphiTStreamWrapper::seek: the value returned (the new position, or a
\* negative value on failure)
seek(f, p, offset, origin) ==
  LET base == CASE origin = "soFromBeginning" -> 0
                [] origin = "soFromCurrent" -> p
                [] origin = "soFromEnd" -> FileSize(f)
  IN  IF ~f.seekOK \/ base + offset < 0 THEN -1 ELSE base + offset

\* one entry of the log of calls made on the source stream
SrcRead(p, count, got) == [op |-> "read", at |-> p, req |-> count, got |-> got]
\* a loop of n calls read(&byte, 1) starting at p, got of which returned 1
SrcReads(p, n, got) == [op |-> "reads", at |-> p, req |-> n, got |-> got]
SrcSeek(offset, origin, ret) ==
  [op |-> "seek", at |-> offset, req |-> origin, got |-> ret]

\* ------------------------------------------------------------------------
\* Colours and palettes: a Color is <<r, g, b, a>>
\* ------------------------------------------------------------------------
\* static const Color defaultPalette[256]
defaultPalette ==
  <<
     <<0, 0, 0, 255>>, <<128, 0, 0, 255>>, <<0, 128, 0, 255>>, <<128, 128, 0, 255>>,
     <<0, 0, 128, 255>>, <<128, 0, 128, 255>>, <<0, 128, 128, 255>>, <<192, 192, 192, 255>>,
     <<192, 220, 192, 255>>, <<166, 202, 240, 255>>, <<42, 63, 170, 255>>, <<42, 63, 255, 255>>,
     <<42, 95, 0, 255>>, <<42, 95, 85, 255>>, <<42, 95, 170, 255>>, <<42, 95, 255, 255>>,
     <<42, 127, 0, 255>>, <<42, 127, 85, 255>>, <<42, 127, 170, 255>>, <<42, 127, 255, 255>>,
     <<42, 159, 0, 255>>, <<42, 159, 85, 255>>, <<42, 159, 170, 255>>, <<42, 159, 255, 255>>,
     <<42, 191, 0, 255>>, <<42, 191, 85, 255>>, <<42, 191, 170, 255>>, <<42, 191, 255, 255>>,
     <<42, 223, 0, 255>>, <<42, 223, 85, 255>>, <<42, 223, 170, 255>>, <<42, 223, 255, 255>>,
     <<42, 255, 0, 255>>, <<42, 255, 85, 255>>, <<42, 255, 170, 255>>, <<42, 255, 255, 255>>,
     <<85, 0, 0, 255>>, <<85, 0, 85, 255>>, <<85, 0, 170, 255>>, <<85, 0, 255, 255>>,
     <<85, 31, 0, 255>>, <<85, 31, 85, 255>>, <<85, 31, 170, 255>>, <<85, 31, 255, 255>>,
     <<85, 63, 0, 255>>, <<85, 63, 85, 255>>, <<85, 63, 170, 255>>, <<85, 63, 255, 255>>,
     <<85, 95, 0, 255>>, <<85, 95, 85, 255>>, <<85, 95, 170, 255>>, <<85, 95, 255, 255>>,
     <<85, 127, 0, 255>>, <<85, 127, 85, 255>>, <<85, 127, 170, 255>>, <<85, 127, 255, 255>>,
     <<85, 159, 0, 255>>, <<85, 159, 85, 255>>, <<85, 159, 170, 255>>, <<85, 159, 255, 255>>,
     <<85, 191, 0, 255>>, <<85, 191, 85, 255>>, <<85, 191, 170, 255>>, <<85, 191, 255, 255>>,
     <<85, 223, 0, 255>>, <<85, 223, 85, 255>>, <<85, 223, 170, 255>>, <<85, 223, 255, 255>>,
     <<85, 255, 0, 255>>, <<85, 255, 85, 255>>, <<85, 255, 170, 255>>, <<85, 255, 255, 255>>,
     <<127, 0, 0, 255>>, <<127, 0, 85, 255>>, <<127, 0, 170, 255>>, <<127, 0, 255, 255>>,
     <<127, 31, 0, 255>>, <<127, 31, 85, 255>>, <<127, 31, 170, 255>>, <<127, 31, 255, 255>>,
     <<127, 63, 0, 255>>, <<127, 63, 85, 255>>, <<127, 63, 170, 255>>, <<127, 63, 255, 255>>,
     <<127, 95, 0, 255>>, <<127, 95, 85, 255>>, <<127, 95, 170, 255>>, <<127, 95, 255, 255>>,
     <<127, 127, 0, 255>>, <<127, 127, 85, 255>>, <<127, 127, 170, 255>>, <<127, 127, 255, 255>>,
     <<127, 159, 0, 255>>, <<127, 159, 85, 255>>, <<127, 159, 170, 255>>, <<127, 159, 255, 255>>,
     <<127, 191, 0, 255>>, <<127, 191, 85, 255>>, <<127, 191, 170, 255>>, <<127, 191, 255, 255>>,
     <<127, 223, 0, 255>>, <<127, 223, 85, 255>>, <<127, 223, 170, 255>>, <<127, 223, 255, 255>>,
     <<127, 255, 0, 255>>, <<127, 255, 85, 255>>, <<127, 255, 170, 255>>, <<127, 255, 255, 255>>,
     <<170, 0, 0, 255>>, <<170, 0, 85, 255>>, <<170, 0, 170, 255>>, <<170, 0, 255, 255>>,
     <<170, 31, 0, 255>>, <<170, 31, 85, 255>>, <<170, 31, 170, 255>>, <<170, 31, 255, 255>>,
     <<170, 63, 0, 255>>, <<170, 63, 85, 255>>, <<170, 63, 170, 255>>, <<170, 63, 255, 255>>,
     <<170, 95, 0, 255>>, <<170, 95, 85, 255>>, <<170, 95, 170, 255>>, <<170, 95, 255, 255>>,
     <<170, 127, 0, 255>>, <<170, 127, 85, 255>>, <<170, 127, 170, 255>>, <<170, 127, 255, 255>>,
     <<170, 159, 0, 255>>, <<170, 159, 85, 255>>, <<170, 159, 170, 255>>, <<170, 159, 255, 255>>,
     <<170, 191, 0, 255>>, <<170, 191, 85, 255>>, <<170, 191, 170, 255>>, <<170, 191, 255, 255>>,
     <<170, 223, 0, 255>>, <<170, 223, 85, 255>>, <<170, 223, 170, 255>>, <<170, 223, 255, 255>>,
     <<170, 255, 0, 255>>, <<170, 255, 85, 255>>, <<170, 255, 170, 255>>, <<170, 255, 255, 255>>,
     <<212, 0, 0, 255>>, <<212, 0, 85, 255>>, <<212, 0, 170, 255>>, <<212, 0, 255, 255>>,
     <<212, 31, 0, 255>>, <<212, 31, 85, 255>>, <<212, 31, 170, 255>>, <<212, 31, 255, 255>>,
     <<212, 63, 0, 255>>, <<212, 63, 85, 255>>, <<212, 63, 170, 255>>, <<212, 63, 255, 255>>,
     <<212, 95, 0, 255>>, <<212, 95, 85, 255>>, <<212, 95, 170, 255>>, <<212, 95, 255, 255>>,
     <<212, 127, 0, 255>>, <<212, 127, 85, 255>>, <<212, 127, 170, 255>>, <<212, 127, 255, 255>>,
     <<212, 159, 0, 255>>, <<212, 159, 85, 255>>, <<212, 159, 170, 255>>, <<212, 159, 255, 255>>,
     <<212, 191, 0, 255>>, <<212, 191, 85, 255>>, <<212, 191, 170, 255>>, <<212, 191, 255, 255>>,
     <<212, 223, 0, 255>>, <<212, 223, 85, 255>>, <<212, 223, 170, 255>>, <<212, 223, 255, 255>>,
     <<212, 255, 0, 255>>, <<212, 255, 85, 255>>, <<212, 255, 170, 255>>, <<212, 255, 255, 255>>,
     <<255, 0, 85, 255>>, <<255, 0, 170, 255>>, <<255, 31, 0, 255>>, <<255, 31, 85, 255>>,
     <<255, 31, 170, 255>>, <<255, 31, 255, 255>>, <<255, 63, 0, 255>>, <<255, 63, 85, 255>>,
     <<255, 63, 170, 255>>, <<255, 63, 255, 255>>, <<255, 95, 0, 255>>, <<255, 95, 85, 255>>,
     <<255, 95, 170, 255>>, <<255, 95, 255, 255>>, <<255, 127, 0, 255>>, <<255, 127, 85, 255>>,
     <<255, 127, 170, 255>>, <<255, 127, 255, 255>>, <<255, 159, 0, 255>>, <<255, 159, 85, 255>>,
     <<255, 159, 170, 255>>, <<255, 159, 255, 255>>, <<255, 191, 0, 255>>, <<255, 191, 85, 255>>,
     <<255, 191, 170, 255>>, <<255, 191, 255, 255>>, <<255, 223, 0, 255>>, <<255, 223, 85, 255>>,
     <<255, 223, 170, 255>>, <<255, 223, 255, 255>>, <<255, 255, 85, 255>>, <<255, 255, 170, 255>>,
     <<204, 204, 255, 255>>, <<255, 204, 255, 255>>, <<51, 255, 255, 255>>, <<102, 255, 255, 255>>,
     <<153, 255, 255, 255>>, <<204, 255, 255, 255>>, <<0, 127, 0, 255>>, <<0, 127, 85, 255>>,
     <<0, 127, 170, 255>>, <<0, 127, 255, 255>>, <<0, 159, 0, 255>>, <<0, 159, 85, 255>>,
     <<0, 159, 170, 255>>, <<0, 159, 255, 255>>, <<0, 191, 0, 255>>, <<0, 191, 85, 255>>,
     <<0, 191, 170, 255>>, <<0, 191, 255, 255>>, <<0, 223, 0, 255>>, <<0, 223, 85, 255>>,
     <<0, 223, 170, 255>>, <<0, 223, 255, 255>>, <<0, 255, 85, 255>>, <<0, 255, 170, 255>>,
     <<42, 0, 0, 255>>, <<42, 0, 85, 255>>, <<42, 0, 170, 255>>, <<42, 0, 255, 255>>,
     <<42, 31, 0, 255>>, <<42, 31, 85, 255>>, <<42, 31, 170, 255>>, <<42, 31, 255, 255>>,
     <<42, 63, 0, 255>>, <<42, 63, 85, 255>>, <<255, 251, 240, 255>>, <<160, 160, 164, 255>>,
     <<128, 128, 128, 255>>, <<255, 0, 0, 255>>, <<0, 255, 0, 255>>, <<255, 255, 0, 255>>,
     <<0, 0, 255, 255>>, <<255, 0, 255, 255>>, <<0, 255, 255, 255>>, <<255, 255, 255, 255>>
  >>

\* palette[i] for i in 0..255
Pal(p, i) == p[i + 1]

\* ------------------------------------------------------------------------
\* State
\* ------------------------------------------------------------------------
VARIABLES
  g_default_PNG_Mode,  \* the PNG output mode: 8, 24 or 32
  chosen,              \* history: the option checked at the most recent
                       \* IDOK that had one checked, 8 before the first
  nam,                 \* the ShortString the host passes as nam_ss
  compatible,          \* what IsFileCompatible returned, -1 before it did
  list,                \* what GetFileConvert returned
  pc,                  \* where the plug-in is: "idle" or a stage of ConvertPID
  arg,                 \* ConvertPID's arguments: src, dst (0 = null), cnv
  file,                \* the file behind the source stream
  srcPos,              \* position of the source stream
  srcOps,              \* log of the calls made on the source stream
  header,              \* PIDHeader as read
  pixel_count,         \* size_t pixel_count, <<high 16 bits, low 16 bits>>
  palette,             \* Color palette[256]
  pixels,              \* the cells of `pixels` stored so far, in order
  pos,                 \* size_t pos
  A,                   \* unsigned char A
  B,                   \* unsigned char B
  dst,                 \* the destination stream: data, pos, ops
  res,                 \* ConvertPID's return value
  shortRun,            \* history: a literal run declared more bytes than
                       \* the source had left
  png,                 \* std::vector<char> png of a SaveToPNG that runs
                       \* while the dialog is open, << >> otherwise
  earlier              \* history: the call before this one and its result,
                       \* where calls are compared with one another

vars == << g_default_PNG_Mode, chosen, nam, compatible, list, pc, arg, file, srcPos, srcOps, header,
           pixel_count, palette, pixels, pos, A, B, dst, res, shortRun, png, earlier >>

\* what the host's questions about a file name left behind
listing == << nam, compatible, list >>

\* the locals of a call, all of them, and what is kept of the call before
run == << arg, file, srcPos, srcOps, header, pixel_count, palette, pixels,
          pos, A, B, dst, res, shortRun, png, earlier >>

NoFile ==
  [ID |-> 0, Flags |-> 0, Width |-> 0, Height |-> 0, U |-> << 0, 0, 0, 0 >>,
   body |-> << >>, padLen |-> 0, cut |-> 0, bad |-> -1, seekOK |-> TRUE]
NoHeader == [ID |-> 0, Flags |-> 0, Width |-> 0, Height |-> 0, U |-> << >>]
NoArg == [src |-> 0, dst |-> 0, cnv |-> ""]
EmptyStream == [data |-> << >>, pos |-> 0, ops |-> << >>]
NoCall ==
  [seen |-> FALSE, file |-> NoFile, cnv |-> "", mode |-> 0, res |-> 0,
   dst |-> EmptyStream]

\* a transparency flag that bit 0x02 sets as well
useTransparencyOrBit2 == FlagSet(header.Flags, 1) \/ FlagSet(header.Flags, 2)

\* bool useTransparency, mirror, invert, rleCompression, hasPalette
useTransparency == FlagSet(header.Flags, 1)
mirror == FlagSet(header.Flags, 8)
invert == FlagSet(header.Flags, 16)
rleCompression == FlagSet(header.Flags, 32)
hasPalette == FlagSet(header.Flags, 128)

\* pixels.size(), known to be at most 2^30 once the ceiling check passed
PixelsSize == SizeVal(pixel_count)

\* the raster has a cell for every (x, y) of the header: Width * Height did
\* not wrap in pixel_count
RasterCovers ==
  /\ PixelsSize % header.Width = 0
  /\ PixelsSize \div header.Width = header.Height

\* return v from ConvertPID (v = 1 also through catch (...))
Return(v) == pc' = "done" /\ res' = v

\* ------------------------------------------------------------------------
\* The configuration dialog
\* ------------------------------------------------------------------------
\* a mode that falls back to 8 when no button is checked
SelectedModeOrDefault(checked, mode) ==
  IF checked \in {8, 24, 32} THEN checked ELSE 8

\* the mode after IDOK: the if / else if chain over IsDlgButtonChecked,
\* which assigns nothing when no button is checked
SelectedMode(checked, mode) ==
  IF checked = 8 THEN 8
  ELSE IF checked = 24 THEN 24
  ELSE IF checked = 32 THEN 32
  ELSE mode

\* ConfigDlgProc, WM_COMMAND IDOK: `checked` is the radio button that is
\* checked (8, 24 or 32), 0 if none is
ConfigDlgProc_IDOK(checked) ==
  /\ pc = "idle"
  /\ g_default_PNG_Mode' = SelectedMode(checked, g_default_PNG_Mode)
  /\ chosen' = IF checked \in {8, 24, 32} THEN checked ELSE chosen
  /\ UNCHANGED << listing, pc, run >>

\* ConfigDlgProc, WM_COMMAND IDCANCEL
ConfigDlgProc_IDCANCEL ==
  /\ pc = "idle"
  /\ UNCHANGED vars

\* ------------------------------------------------------------------------
\* The host's questions about a file name
\* ------------------------------------------------------------------------
\* a const ShortString *: null, or the len bytes of data (character codes)
NullString == [null |-> TRUE, chars |-> << >>]
Str(chars) == [null |-> FALSE, chars |-> chars]

\* ShortStringPtrToString: the std::string of the len bytes, empty for null
ShortStringPtrToString(ss) ==
  IF ss.null THEN << >> ELSE SubSeq(ss.chars, 1, Min(Len(ss.chars), 255))

\* std::string::npos
npos == -1

\* s.rfind(c): the position, from 0, of the last c in s
rfind(s, c) ==
  LET at == {i \in 1..Len(s) : s[i] = c}
  IN  IF at = {} THEN npos
      ELSE (CHOOSE i \in at : \A j \in at : j <= i) - 1

\* s.substr(p)
substr(s, p) == SubSeq(s, p + 1, Len(s))

\* s.c_str() as a C function reads it: the characters before the first NUL
c_str(s) ==
  LET nul == {i \in 1..Len(s) : s[i] = 0}
  IN  IF nul = {} THEN s
      ELSE SubSeq(s, 1, (CHOOSE i \in nul : \A j \in nul : i <= j) - 1)

\* tolower in the C locale
tolower(c) == IF c \in 65..90 THEN c + 32 ELSE c

\* _stricmp(a, b) on C strings: 0 when equal ignoring case, else the
\* difference of the first pair of lowered characters that differ
RECURSIVE stricmp(_, _)
stricmp(a, b) ==
  LET ca == IF a = << >> THEN 0 ELSE tolower(Head(a))
      cb == IF b = << >> THEN 0 ELSE tolower(Head(b))
  IN  IF ca # cb THEN ca - cb
      ELSE IF ca = 0 THEN 0
      ELSE stricmp(Tail(a), Tail(b))

\* the literals ".pid" and ".PID"
DotPidLower == << 46, 112, 105, 100 >>
DotPidUpper == << 46, 80, 73, 68 >>

\* IsFileCompatible's bool isCompatible, FALSE on its early returns
isCompatible(nam_ss) ==
  LET n == ShortStringPtrToString(nam_ss)
      dot_pos == rfind(n, 46)
  IN  IF n = << >> THEN FALSE
      ELSE IF dot_pos = npos THEN FALSE
      ELSE stricmp(c_str(substr(n, dot_pos)), DotPidLower) = 0

\* IsFileCompatible(nam_ss, Offset, Size, fmt_ss, DataX, DataY)
IsFileCompatible ==
  /\ pc = "idle"
  /\ compatible' = IF isCompatible(nam) THEN 1 ELSE 0
  /\ UNCHANGED << g_default_PNG_Mode, chosen, nam, list, pc, run >>

\* memset(&result, 0, sizeof(ConvertList))
EmptyList == [NumFormats |-> 0, List |-> << >>]

\* GetFileConvert's ConvertList result: NumFormats and the entries
\* List[0 .. NumFormats-1]
result(nam_ss, mode) ==
  LET n == ShortStringPtrToString(nam_ss)
      dot_pos == rfind(n, 46)
  IN  IF dot_pos = npos \/ stricmp(c_str(substr(n, dot_pos)), DotPidUpper) # 0
        THEN EmptyList
        ELSE [NumFormats |-> 3,
              List |-> << [Display |-> "BMP - Windows Bitmap (24bpp)",
                           Ext |-> "bmp", ID |-> "BMP"],
                          [Display |-> "TGA - Targa (8bpp Colormap)",
                           Ext |-> "tga", ID |-> "TGA8"],
                          [Display |-> "PNG - Portable Network Graphics ("
                                       \o ToString(mode) \o "bpp)",
                           Ext |-> "png", ID |-> "PNG"] >>]

\* GetFileConvert(nam_ss, Offset, Size, fmt_ss, DataX, DataY)
GetFileConvert ==
  /\ pc = "idle"
  /\ list' = result(nam, g_default_PNG_Mode)
  /\ UNCHANGED << g_default_PNG_Mode, chosen, nam, compatible, pc, run >>

\* ------------------------------------------------------------------------
\* ConvertPID, stage by stage
\* ------------------------------------------------------------------------
\* the host calls ConvertPID(src, dst, cnv); `in` is one input of the family
\* the specification enumerates
ConvertPID(in) ==
  /\ pc = "idle"
  /\ pc' = "enter"
  /\ arg' = [src |-> in.src, dst |-> in.dst, cnv |-> in.cnv]
  /\ file' = in.file
  /\ srcPos' = in.at
  /\ UNCHANGED << g_default_PNG_Mode, chosen, listing, png, earlier, srcOps, header, pixel_count, palette,
                  pixels, pos, A, B, dst, res, shortRun >>

\* DelphiTStreamWrapper srcStream(src); DelphiTStreamWrapper dstStream(dst);
\* a null pointer throws std::invalid_argument, which catch (...) turns
\* into return 1
Construct ==
  /\ pc = "enter"
  /\ IF arg.src = 0 \/ arg.dst = 0
       THEN Return(1)
       ELSE pc' = "readHeader" /\ res' = res
  /\ UNCHANGED << g_default_PNG_Mode, chosen, listing, png, earlier, arg, file, srcPos, srcOps, header,
                  pixel_count, palette, pixels, pos, A, B, dst, shortRun >>

\* the PIDHeader in 32 bytes read into the packed struct
ParseHeader(b) ==
  [ID |-> BytesToInt32(SubSeq(b, 1, 4)),
   Flags |-> BytesToInt32(SubSeq(b, 5, 8)),
   Width |-> BytesToInt32(SubSeq(b, 9, 12)),
   Height |-> BytesToInt32(SubSeq(b, 13, 16)),
   U |-> [k \in 1..4 |-> BytesToInt32(SubSeq(b, 13 + 4 * k, 16 + 4 * k))]]

\* srcStream.read(&header, sizeof(header)) != sizeof(header)
ReadHeader ==
  /\ pc = "readHeader"
  /\ LET b == read(file, srcPos, HeaderSize)
     IN  /\ srcPos' = srcPos + Len(b)
         /\ srcOps' = Append(srcOps, SrcRead(srcPos, HeaderSize, Len(b)))
         /\ IF Len(b) # HeaderSize
              THEN Return(1) /\ header' = header
              ELSE pc' = "validate" /\ header' = ParseHeader(b) /\ res' = res
  /\ UNCHANGED << g_default_PNG_Mode, chosen, listing, png, earlier, arg, file, pixel_count, palette,
                  pixels, pos, A, B, dst, shortRun >>

\* header.ID != 10
BadMagic(h) == h.ID # PID_MAGIC

\* a variant of the dimension check that lets a zero through
BadDimensionsNegativeOnly(h) == h.Width < 0 \/ h.Height < 0

\* header.Width <= 0 || header.Height <= 0
BadDimensions(h) == h.Width <= 0 \/ h.Height <= 0

\* header validation and the ceiling on pixel_count
ValidateHeader ==
  /\ pc = "validate"
  /\ IF BadMagic(header) \/ BadDimensions(header)
       THEN Return(1) /\ pixel_count' = pixel_count
       ELSE /\ pixel_count' = SizeMul(header.Width, header.Height)
            /\ IF ExceedsCeiling(pixel_count')
                 THEN Return(1)
                 ELSE pc' = "palette" /\ res' = res
  /\ UNCHANGED << g_default_PNG_Mode, chosen, listing, png, earlier, arg, file, srcPos, srcOps, header,
                  palette, pixels, pos, A, B, dst, shortRun >>

\* the embedded palette read from b, the bytes from offset size - 768:
\* an embedded palette whose entries are all opaque
EmbeddedPaletteOpaque(b, transparent) ==
  [k \in 1..256 |-> << b[3 * k - 2], b[3 * k - 1], b[3 * k], 255 >>]

\* palette[i] = (b[3i], b[3i+1], b[3i+2], 255), entry 0 with alpha 0 when
\* transparency is on
EmbeddedPalette(b, transparent) ==
  [k \in 1..256 |->
     << b[3 * k - 2], b[3 * k - 1], b[3 * k],
        IF transparent /\ k = 1 THEN 0 ELSE 255 >>]

\* memcpy(palette, defaultPalette, ...); if (useTransparency) palette[0].a = 0
DefaultPalette(transparent) ==
  [k \in 1..256 |->
     IF transparent /\ k = 1
       THEN << defaultPalette[1][1], defaultPalette[1][2], defaultPalette[1][3], 0 >>
       ELSE defaultPalette[k]]

\* the palette stage
ResolvePalette ==
  /\ pc = "palette"
  /\ IF hasPalette
       THEN LET r == seek(file, srcPos, -PaletteBytes, "soFromEnd")
                b == HostRead(file, r, PaletteBytes)
                \* the single-byte reads of the loop, up to the first that fails
                calls == Min(Len(b) + 1, PaletteBytes)
            IN  IF r < 0
                  THEN /\ Return(1)
                       /\ srcOps' = Append(srcOps, SrcSeek(-PaletteBytes, "soFromEnd", r))
                       /\ UNCHANGED << srcPos, palette >>
                  ELSE /\ srcPos' = r + Len(b)
                       /\ srcOps' = Append(srcOps, SrcSeek(-PaletteBytes, "soFromEnd", r))
                                    \o << SrcReads(r, calls, Len(b)) >>
                       /\ IF Len(b) # PaletteBytes
                            THEN Return(1) /\ palette' = palette
                            ELSE /\ palette' = EmbeddedPalette(b, useTransparency)
                                 /\ pc' = "seekPixels" /\ res' = res
       ELSE /\ palette' = DefaultPalette(useTransparency)
            /\ pc' = "seekPixels"
            /\ UNCHANGED << srcPos, srcOps, res >>
  /\ UNCHANGED << g_default_PNG_Mode, chosen, listing, png, earlier, arg, file, header, pixel_count, pixels,
                  pos, A, B, dst, shortRun >>

\* a pixel-data stage that leaves the source stream where the palette
\* stage left it
SeekPixelDataSkipped ==
  /\ pc = "seekPixels"
  /\ pc' = "alloc"
  /\ UNCHANGED << g_default_PNG_Mode, chosen, listing, png, earlier, arg, file, srcPos, srcOps, header,
                  pixel_count, palette, pixels, pos, A, B, dst, res, shortRun >>

\* srcStream.seek(32, soFromBeginning) < 0
SeekPixelData ==
  /\ pc = "seekPixels"
  /\ LET r == seek(file, srcPos, PixelDataOffset, "soFromBeginning")
     IN  /\ srcOps' = Append(srcOps, SrcSeek(PixelDataOffset, "soFromBeginning", r))
         /\ IF r < 0
              THEN Return(1) /\ srcPos' = srcPos
              ELSE pc' = "alloc" /\ srcPos' = r /\ res' = res
  /\ UNCHANGED << g_default_PNG_Mode, chosen, listing, png, earlier, arg, file, header, pixel_count, palette,
                  pixels, pos, A, B, dst, shortRun >>

\* while (pos < pixels.size())
LoopOn(p, broke) == IF ~broke /\ p < PixelsSize THEN "decode" ELSE "checkSize"

\* std::vector<unsigned char> pixels(pixel_count); pos = 0; A = 0, B = 0;
\* the allocation may throw std::bad_alloc, which catch (...) turns into
\* return 1
AllocPixels ==
  /\ pc = "alloc"
  /\ \/ Return(1) /\ UNCHANGED << pixels, pos, A, B >>
     \/ /\ pixels' = << >>
        /\ pos' = 0
        /\ A' = 0
        /\ B' = 0
        /\ pc' = LoopOn(0, FALSE)
        /\ res' = res
  /\ UNCHANGED << g_default_PNG_Mode, chosen, listing, png, earlier, arg, file, srcPos, srcOps, header,
                  pixel_count, palette, dst, shortRun >>

\* the number of bytes the source can still deliver from position p
SrcRemaining(f, p) ==
  Max(0, (IF f.bad >= 0 THEN Min(f.bad, FileSize(f)) ELSE FileSize(f)) - p)

\* n copies of v
Fill(n, v) == [k \in 1..n |-> v]

\* grammar A, the literal run:
\*   for (int i = 0; i < A && pos < pixels.size(); ++i)
\*     { if (srcStream.read(&B, 1) != 1) { pos = SIZE_MAX; break; }
\*       pixels[pos++] = B; }
\* st is the loop's state: pos, srcPos, pixels, ops (the reads made), B
RECURSIVE LiteralRun(_, _, _, _, _)
LiteralRun(f, size, a, i, st) ==
  IF ~(i < a /\ st.pos < size)
    THEN st
    ELSE LET b == read(f, st.srcPos, 1)
         IN  IF Len(b) # 1
               THEN [st EXCEPT !.pos = SIZE_MAX,
                               !.ops = Append(@, SrcRead(st.srcPos, 1, 0))]
               ELSE LiteralRun(f, size, a, i + 1,
                      [pos |-> st.pos + 1,
                       srcPos |-> st.srcPos + 1,
                       pixels |-> Append(st.pixels, b[1]),
                       ops |-> Append(st.ops, SrcRead(st.srcPos, 1, 1)),
                       B |-> b[1]])

\* grammar A, the fill run:
\*   for (int i = 0; i < count && pos < pixels.size(); ++i) pixels[pos++] = fill;
FillRun(size, count, fill, st) ==
  LET n == Min(count, size - st.pos)
  IN  [st EXCEPT !.pos = @ + n, !.pixels = @ \o Fill(n, fill)]

\* a variant of the threshold of grammar A that takes 128 for a fill run
IsFillRunFrom128(a) == a >= RleFillAbove

\* if (A > 128): the control byte of a fill run
IsFillRun(a) == a > RleFillAbove

\* one iteration of the loop of grammar A (rleCompression)
DecodeRLE ==
  /\ pc = "decode"
  /\ rleCompression
  /\ LET c == read(file, srcPos, 1)
         st0 == [pos |-> pos, srcPos |-> srcPos + 1, pixels |-> pixels,
                 ops |-> Append(srcOps, SrcRead(srcPos, 1, 1)), B |-> B]
     IN  IF Len(c) # 1
           THEN \* RLE read A failed: break
                /\ srcOps' = Append(srcOps, SrcRead(srcPos, 1, 0))
                /\ pc' = LoopOn(pos, TRUE)
                /\ UNCHANGED << srcPos, pixels, pos, A, B, shortRun >>
           ELSE LET st == IF IsFillRun(c[1])
                            THEN FillRun(PixelsSize, c[1] - RleFillAbove, 0, st0)
                            ELSE LiteralRun(file, PixelsSize, c[1], 0, st0)
                IN  /\ A' = c[1]
                    /\ B' = st.B
                    /\ pos' = st.pos
                    /\ srcPos' = st.srcPos
                    /\ pixels' = st.pixels
                    /\ srcOps' = st.ops
                    /\ shortRun' = (shortRun \/ (~IsFillRun(c[1])
                                      /\ c[1] > SrcRemaining(file, srcPos + 1)))
                    /\ pc' = LoopOn(st.pos, st.pos = SIZE_MAX)
  /\ UNCHANGED << g_default_PNG_Mode, chosen, listing, png, earlier, arg, file, header, pixel_count, palette,
                  dst, res >>

\* a variant of the threshold of grammar B that takes 192 for a repeat run
IsRepeatRunFrom192(a) == a >= RawRunAbove

\* if (A > 192): the control byte of a repeat run
IsRepeatRun(a) == a > RawRunAbove

\* one iteration of the loop of grammar B (no rleCompression)
DecodeRaw ==
  /\ pc = "decode"
  /\ ~rleCompression
  /\ LET c == read(file, srcPos, 1)
         count == IF IsRepeatRun(c[1]) THEN c[1] - RawRunAbove ELSE 1
         b == read(file, srcPos + 1, 1)
     IN  IF Len(c) # 1
           THEN \* raw read A failed: break
                /\ srcOps' = Append(srcOps, SrcRead(srcPos, 1, 0))
                /\ pc' = LoopOn(pos, TRUE)
                /\ UNCHANGED << srcPos, pixels, pos, A, B >>
           ELSE IF IsRepeatRun(c[1]) /\ Len(b) # 1
             THEN \* raw read B failed: break
                  /\ A' = c[1]
                  /\ srcPos' = srcPos + 1
                  /\ srcOps' = srcOps \o << SrcRead(srcPos, 1, 1),
                                            SrcRead(srcPos + 1, 1, 0) >>
                  /\ pc' = LoopOn(pos, TRUE)
                  /\ UNCHANGED << pixels, pos, B >>
             ELSE LET v == IF IsRepeatRun(c[1]) THEN b[1] ELSE c[1]
                      n == Min(count, PixelsSize - pos)
                  IN  /\ A' = c[1]
                      /\ B' = v
                      /\ srcPos' = srcPos + (IF IsRepeatRun(c[1]) THEN 2 ELSE 1)
                      /\ srcOps' = srcOps \o
                           (IF IsRepeatRun(c[1])
                              THEN << SrcRead(srcPos, 1, 1), SrcRead(srcPos + 1, 1, 1) >>
                              ELSE << SrcRead(srcPos, 1, 1) >>)
                      /\ pixels' = pixels \o Fill(n, v)
                      /\ pos' = pos + n
                      /\ pc' = LoopOn(pos + n, FALSE)
  /\ UNCHANGED << g_default_PNG_Mode, chosen, listing, png, earlier, arg, file, header, pixel_count, palette,
                  dst, res, shortRun >>

\* if (pos != pixels.size()) return 1;
CheckSize ==
  /\ pc = "checkSize"
  /\ IF pos # PixelsSize
       THEN Return(1)
       ELSE pc' = "flip" /\ res' = res
  /\ UNCHANGED << g_default_PNG_Mode, chosen, listing, png, earlier, arg, file, srcPos, srcOps, header,
                  pixel_count, palette, pixels, pos, A, B, dst, shortRun >>

\* a variant of the orientation stage that flips inside `pixels`, so that a
\* cell already overwritten is read again: cell k of the result
RECURSIVE InPlaceCell(_, _, _, _, _, _)
InPlaceCell(px, w, h, mir, inv, k) ==
  LET y == (k - 1) \div w
      x == (k - 1) % w
      srcY == IF inv THEN h - 1 - y ELSE y
      srcX == IF mir THEN w - 1 - x ELSE x
      from == srcY * w + srcX + 1
  IN  IF from < k THEN InPlaceCell(px, w, h, mir, inv, from) ELSE px[from]

FlippedInPlace(px, w, h, mir, inv) ==
  [k \in 1..(w * h) |-> InPlaceCell(px, w, h, mir, inv, k)]

\* the raster `flipped` built by the two loops over y and x:
\*   flipped[y * Width + x] = pixels[srcY * Width + srcX]
Flipped(px, w, h, mir, inv) ==
  [k \in 1..(w * h) |->
     LET y == (k - 1) \div w
         x == (k - 1) % w
         srcY == IF inv THEN h - 1 - y ELSE y
         srcX == IF mir THEN w - 1 - x ELSE x
     IN  px[srcY * w + srcX + 1]]

\* an access outside a buffer is undefined behaviour: the build either
\* faults (the access violation is no C++ exception and leaves ConvertPID,
\* pc = "fault") or, compiled with /EHa, catches it and returns 1
OutOfBounds == Return(1) \/ (pc' = "fault" /\ res' = res)

\* if (mirror || invert) { ... pixels = std::move(flipped); }
Flip ==
  /\ pc = "flip"
  /\ IF mirror \/ invert
       THEN IF RasterCovers
              THEN /\ pixels' = Flipped(pixels, header.Width, header.Height,
                                        mirror, invert)
                   /\ pc' = "dispatch"
                   /\ res' = res
              ELSE OutOfBounds /\ pixels' = pixels
       ELSE pc' = "dispatch" /\ UNCHANGED << pixels, res >>
  /\ UNCHANGED << g_default_PNG_Mode, chosen, listing, png, earlier, arg, file, srcPos, srcOps, header,
                  pixel_count, palette, pos, A, B, dst, shortRun >>

\* ------------------------------------------------------------------------
\* DelphiTStreamWrapper over the destination stream
\* ------------------------------------------------------------------------
\* The host's destination stream accepts `room` more bytes (a full disk, a
\* fixed buffer); TStream.Write returns the number of bytes it took.
DstWrite(req, got) == [op |-> "write", req |-> req, got |-> got]
DstSeek(offset, ret) == [op |-> "seek", req |-> offset, got |-> ret]
\* the destination after an access outside the raster was handed to it
DstUndefined == [op |-> "undefined", req |-> 0, got |-> 0]

\* the stream's data after `got` bytes of b were written at d.pos
WrittenAt(d, b, got) ==
  [k \in 1..Max(Len(d.data), d.pos + got) |->
     IF k > d.pos /\ k <= d.pos + got THEN b[k - d.pos] ELSE d.data[k]]

\* DelphiTStreamWrapper::write(buffer, count): the stream afterwards; the
\* value returned is the got of the last entry of ops
write(d, b, room) ==
  LET got == IF Len(b) = 0 THEN 0 ELSE Min(Len(b), room)
  IN  [data |-> WrittenAt(d, b, got),
       pos |-> d.pos + got,
       ops |-> Append(d.ops, DstWrite(Len(b), got))]

\* a seek that is logged and leaves the stream where it was
seek_absKeepsPos(d, offset, ok) ==
  [data |-> d.data,
   pos |-> d.pos,
   ops |-> Append(d.ops, DstSeek(offset, IF ok THEN offset ELSE -1))]

\* DelphiTStreamWrapper::seek_abs(0) on the destination
seek_abs(d, offset, ok) ==
  [data |-> d.data,
   pos |-> IF ok THEN offset ELSE d.pos,
   ops |-> Append(d.ops, DstSeek(offset, IF ok THEN offset ELSE -1))]

\* the byte strings reqs[lo .. hi] one after the other
RECURSIVE Concat(_, _, _)
Concat(reqs, lo, hi) ==
  IF lo > hi THEN << >>
  ELSE IF lo = hi THEN reqs[lo]
  ELSE Concat(reqs, lo, (lo + hi) \div 2) \o Concat(reqs, ((lo + hi) \div 2) + 1, hi)

\* the running totals of the lengths of reqs[lo .. hi]
RECURSIVE Sums(_, _, _)
Sums(reqs, lo, hi) ==
  IF lo > hi THEN << >>
  ELSE IF lo = hi THEN << Len(reqs[lo]) >>
  ELSE LET l == Sums(reqs, lo, (lo + hi) \div 2)
           r == Sums(reqs, ((lo + hi) \div 2) + 1, hi)
       IN  l \o [k \in 1..Len(r) |-> r[k] + l[Len(l)]]

\* the byte strings of reqs laid end to end, and the running totals of
\* their lengths
Layout(reqs) ==
  [all |-> Concat(reqs, 1, Len(reqs)), sums |-> Sums(reqs, 1, Len(reqs))]

\* a run of writes that goes on after one of them fell short
WriteEachGoesOn(d, reqs, lay, room) ==
  LET whole == Cardinality({i \in 1..Len(reqs) : lay.sums[i] <= room})
      before(i) == IF i = 1 THEN 0 ELSE lay.sums[i - 1]
      taken == Min(room, Len(lay.all))
  IN  [dst |-> [data |-> WrittenAt(d, lay.all, taken),
                pos |-> d.pos + taken,
                ops |-> d.ops \o
                        [i \in 1..Len(reqs) |->
                           DstWrite(Len(reqs[i]),
                                    Max(0, Min(Len(reqs[i]), room - before(i))))]],
       ok |-> whole = Len(reqs)]

\* a run of writes each followed by `if (dst.write(b, n) != n) return 1;`:
\* the stream after the first write that falls short, or after all of them.
\* Every write before the first short one is whole, so the calls made are
\* the whole ones (those the room covers), then the one that falls short.
\* lay is Layout(reqs).
WriteEach(d, reqs, lay, room) ==
  LET whole == Cardinality({i \in 1..Len(reqs) : lay.sums[i] <= room})
      calls == Min(Len(reqs), whole + 1)
      before(i) == IF i = 1 THEN 0 ELSE lay.sums[i - 1]
      taken == Min(room, Len(lay.all))
  IN  [dst |-> [data |-> WrittenAt(d, lay.all, taken),
                pos |-> d.pos + taken,
                ops |-> d.ops \o
                        [i \in 1..calls |->
                           DstWrite(Len(reqs[i]),
                                    Min(Len(reqs[i]), room - before(i)))]],
       ok |-> whole = Len(reqs)]

\* the rooms enumerated for an encoder that wants to write `total` bytes:
\* everything fits (total), or the stream runs full near the start or end
Rooms(total) ==
  {r \in 0..total : r <= MaxRoomHead \/ r >= total - MaxRoomTail}

\* ------------------------------------------------------------------------
\* SaveToBMP
\* ------------------------------------------------------------------------
\* write_u16 / write_u32 / write_s32: little-endian bytes
LE16(v) == << v % 256, (v \div 256) % 256 >>
LE32(v) == Int32Bytes(v)

\* a local palette that is the caller's, index 0 included
BakedPaletteKeepsZero(p, transparent) == p

\* the encoders' local palette: index 0 black when transparency is on
BakedPalette(p, transparent) ==
  [k \in 1..256 |->
     IF transparent /\ k = 1 THEN << 0, 0, 0, p[1][4] >> ELSE p[k]]

\* rows that are not padded
BmpRowSizeUnpadded(w) == w * 3

\* const int rowSize = ((width * 3 + 3) & ~3)
BmpRowSize(w) == (w * 3 + 3) - ((w * 3 + 3) % 4)

\* row y as written: B, G, R per pixel, zero padding up to rowSize
BmpRow(px, w, y, p) ==
  [k \in 1..BmpRowSize(w) |->
     IF k <= 3 * w
       THEN LET x == (k - 1) \div 3
                c == Pal(p, px[y * w + x + 1])
            IN  CASE (k - 1) % 3 = 0 -> c[3]
                  [] (k - 1) % 3 = 1 -> c[2]
                  [] OTHER -> c[1]
       ELSE 0]

\* BITMAPFILEHEADER and BITMAPINFOHEADER, one entry per write call
BmpHeaderWrites(w, h) ==
  LET imageSize == BmpRowSize(w) * h
      dataOffset == 14 + 40 + 0
      fileSize == dataOffset + imageSize
  IN  << << 66, 77 >>, LE32(fileSize), LE16(0), LE16(0), LE32(dataOffset),
         LE32(40), LE32(w), LE32(h), LE16(1), LE16(24), LE32(0),
         LE32(imageSize), LE32(0), LE32(0), LE32(0), LE32(0) >>

\* the pixel rows, top row first
BmpRowWritesTopDown(px, w, h, p) ==
  [k \in 1..h |-> BmpRow(px, w, k - 1, p)]

\* the pixel rows, bottom row first: for (int y = height - 1; y >= 0; --y)
BmpRowWrites(px, w, h, p) ==
  [k \in 1..h |-> BmpRow(px, w, h - k, p)]

\* SaveToBMP(dstStream, pixels, Width, Height, palette, useTransparency),
\* called for cnv = "BMP"
SaveToBMP ==
  /\ pc = "dispatch"
  /\ arg.cnv = "BMP"
  /\ IF RasterCovers
       THEN LET reqs == BmpHeaderWrites(header.Width, header.Height)
                        \o BmpRowWrites(pixels, header.Width, header.Height,
                                        BakedPalette(palette, useTransparency))
                lay == Layout(reqs)
            IN  \E room \in Rooms(Len(lay.all)) :
                  LET w == WriteEach(dst, reqs, lay, room)
                  IN  IF ~w.ok
                        THEN dst' = w.dst /\ Return(1)
                        ELSE \E seekOK \in BOOLEAN :
                               /\ dst' = seek_abs(w.dst, 0, seekOK)
                               /\ Return(IF seekOK THEN 0 ELSE 1)
       ELSE \* the row loop reads pixels outside the raster
            /\ dst' = [dst EXCEPT !.ops = Append(@, DstUndefined)]
            /\ OutOfBounds
  /\ UNCHANGED << g_default_PNG_Mode, chosen, listing, png, earlier, arg, file, srcPos, srcOps, header,
                  pixel_count, palette, pixels, pos, A, B, shortRun >>

\* ------------------------------------------------------------------------
\* SaveToTGA
\* ------------------------------------------------------------------------
\* the 18-byte header, one entry per write call
TgaHeaderWrites(w, h) ==
  << << 0 >>, << 1 >>, << 1 >>, LE16(0), LE16(256), << 24 >>, LE16(0), LE16(0),
     LE16(w % Two16), LE16(h % Two16), << 8 >>, << 32 >> >>

\* the 256 palette entries as B, G, R
TgaPaletteWrites(p) ==
  [k \in 1..256 |-> << p[k][3], p[k][2], p[k][1] >>]

\* rows height-1 .. 0, `width` raw indices each
TgaRowWritesBottomUp(px, w, h) ==
  [k \in 1..h |-> SubSeq(px, (h - k) * w + 1, (h - k + 1) * w)]

\* rows 0 .. height-1, `width` raw indices each
TgaRowWrites(px, w, h) ==
  [k \in 1..h |-> SubSeq(px, (k - 1) * w + 1, k * w)]

\* SaveToTGA(dstStream, pixels, Width, Height, palette, useTransparency),
\* called for cnv = "TGA8" or "TGA"
SaveToTGA ==
  /\ pc = "dispatch"
  /\ arg.cnv # "BMP"
  /\ arg.cnv = "TGA8" \/ arg.cnv = "TGA"
  /\ IF RasterCovers
       THEN LET reqs == TgaHeaderWrites(header.Width, header.Height)
                        \o TgaPaletteWrites(BakedPalette(palette, useTransparency))
                        \o TgaRowWrites(pixels, header.Width, header.Height)
                lay == Layout(reqs)
            IN  \E room \in Rooms(Len(lay.all)) :
                  LET w == WriteEach(dst, reqs, lay, room)
                  IN  IF ~w.ok
                        THEN dst' = w.dst /\ Return(1)
                        ELSE \E seekOK \in BOOLEAN :
                               /\ dst' = seek_abs(w.dst, 0, seekOK)
                               /\ Return(IF seekOK THEN 0 ELSE 1)
       ELSE \* the row loop hands memory outside the raster to the host
            /\ dst' = [dst EXCEPT !.ops = Append(@, DstUndefined)]
            /\ OutOfBounds
  /\ UNCHANGED << g_default_PNG_Mode, chosen, listing, png, earlier, arg, file, srcPos, srcOps, header,
                  pixel_count, palette, pixels, pos, A, B, shortRun >>

\* ------------------------------------------------------------------------
\* crc32_png and write_PNG_Chunk
\* ------------------------------------------------------------------------
\* an unsigned int is the pair <<high 16 bits, low 16 bits>>
RECURSIVE XorBits(_, _, _)
XorBits(a, b, n) ==
  IF n = 0 THEN 0
  ELSE ((a + b) % 2) + 2 * XorBits(a \div 2, b \div 2, n - 1)

\* a ^ b for bytes, tabulated
XorByte == [a \in Byte |-> [b \in Byte |-> XorBits(a, b, 8)]]

\* a ^ b for 16-bit halves
Xor16(a, b) ==
  256 * XorByte[a \div 256][b \div 256] + XorByte[a % 256][b % 256]

\* a ^ b, ~a and a >> 8 for unsigned ints
Xor32(a, b) == << Xor16(a[1], b[1]), Xor16(a[2], b[2]) >>
Not32(a) == << 65535 - a[1], 65535 - a[2] >>
Shr8(a) == << a[1] \div 256, (a[1] % 256) * 256 + (a[2] \div 256) >>

\* static const unsigned int crc_table[256]
crc_table ==
  <<
     <<0, 0>>, <<30471, 12438>>, <<60942, 24876>>, <<39177, 20922>>,
     <<1901, 50201>>, <<28778, 62607>>, <<59747, 42293>>, <<40548, 38307>>,
     <<3803, 34866>>, <<31196, 47268>>, <<57557, 59678>>, <<38866, 55688>>,
     <<2486, 19499>>, <<32433, 31933>>, <<59320, 11527>>, <<37055, 7569>>,
     <<7607, 4196>>, <<27312, 8434>>, <<62393, 29000>>, <<33982, 16862>>,
     <<6874, 54397>>, <<28125, 58603>>, <<62676, 46417>>, <<33747, 34247>>,
     <<4972, 38998>>, <<25707, 43200>>, <<64866, 63866>>, <<35429, 51692>>,
     <<5121, 23631>>, <<25350, 27865>>, <<64015, 15715>>, <<36104, 3573>>,
     <<15214, 8392>>, <<19561, 4190>>, <<54624, 16868>>, <<41575, 29042>>,
     <<15363, 58577>>, <<19204, 54343>>, <<53773, 34301>>, <<42250, 46443>>,
     <<13749, 43258>>, <<17074, 39020>>, <<56251, 51670>>, <<44220, 63808>>,
     <<13016, 27875>>, <<17887, 23669>>, <<56534, 3535>>, <<43985, 15705>>,
     <<9945, 12460>>, <<20958, 58>>, <<51415, 20864>>, <<49104, 24854>>,
     <<8628, 62645>>, <<22195, 50211>>, <<53178, 38297>>, <<47293, 42255>>,
     <<10242, 47262>>, <<24325, 34824>>, <<50700, 55730>>, <<45323, 59684>>,
     <<12143, 31879>>, <<22632, 19473>>, <<49505, 7595>>, <<46694, 11581>>,
     <<30428, 16784>>, <<475, 28934>>, <<39122, 8380>>, <<61397, 4138>>,
     <<29105, 34185>>, <<1718, 46367>>, <<40895, 58533>>, <<59576, 54323>>,
     <<30727, 51618>>, <<3840, 63796>>, <<38409, 43150>>, <<57614, 38936>>,
     <<32618, 3515>>, <<2157, 15661>>, <<37220, 27799>>, <<58979, 23553>>,
     <<27499, 20980>>, <<7276, 24930>>, <<34149, 12504>>, <<62050, 78>>,
     <<27654, 38381>>, <<6913, 42363>>, <<33288, 62657>>, <<62735, 50263>>,
     <<26032, 55750>>, <<4791, 59728>>, <<35774, 47338>>, <<64697, 34940>>,
     <<25309, 7647>>, <<5594, 11593>>, <<36051, 31987>>, <<64468, 19557>>,
     <<19890, 24920>>, <<15029, 20942>>, <<41916, 116>>, <<54459, 12514>>,
     <<19167, 42305>>, <<15832, 38359>>, <<42193, 50285>>, <<54230, 62715>>,
     <<17257, 59754>>, <<13422, 55804>>, <<44391, 34886>>, <<55904, 47312>>,
     <<17412, 11635>>, <<13059, 7653>>, <<43530, 19551>>, <<56589, 31945>>,
     <<20485, 28988>>, <<9986, 16810>>, <<48651, 4112>>, <<51468, 8326>>,
     <<22376, 46373>>, <<8303, 34227>>, <<47462, 54281>>, <<52833, 58527>>,
     <<24286, 63758>>, <<10713, 51608>>, <<45264, 38946>>, <<51159, 43188>>,
     <<22963, 15639>>, <<11956, 3457>>, <<47037, 23611>>, <<49338, 27821>>,
     <<60856, 33568>>, <<39615, 46006>>, <<950, 57868>>, <<29873, 53914>>,
     <<60117, 18233>>, <<40402, 30639>>, <<1243, 9749>>, <<29660, 5763>>,
     <<58211, 2834>>, <<37988, 15236>>, <<3437, 27198>>, <<31338, 23208>>,
     <<58382, 53003>>, <<37641, 65437>>, <<2560, 44583>>, <<32007, 40625>>,
     <<61455, 37700>>, <<34568, 41938>>, <<7681, 62056>>, <<26886, 49918>>,
     <<63330, 22365>>, <<32869, 26571>>, <<6508, 13937>>, <<28267, 1767>>,
     <<65236, 7030>>, <<35283, 11232>>, <<4314, 31318>>, <<26589, 19148>>,
     <<63929, 57199>>, <<36542, 61433>>, <<6071, 48707>>, <<24752, 36565>>,
     <<54998, 41960>>, <<41425, 37758>>, <<14552, 49860>>, <<20447, 62034>>,
     <<53691, 26609>>, <<42684, 22375>>, <<16309, 1757>>, <<18610, 13899>>,
     <<55309, 11226>>, <<44810, 6988>>, <<13827, 19190>>, <<16644, 31328>>,
     <<57184, 61379>>, <<43111, 57173>>, <<12654, 36591>>, <<18025, 48761>>,
     <<52065, 45964>>, <<48230, 33562>>, <<9583, 53920>>, <<21096, 57910>>,
     <<52236, 30613>>, <<47883, 18179>>, <<8706, 5817>>, <<21765, 9775>>,
     <<50618, 15294>>, <<45757, 2856>>, <<11188, 23186>>, <<23731, 27140>>,
     <<49879, 65447>>, <<46544, 53041>>, <<11481, 40587>>, <<23518, 44573>>,
     <<39780, 49840>>, <<60515, 61990>>, <<30058, 41884>>, <<621, 37642>>,
     <<39945, 1705>>, <<60174, 13887>>, <<29191, 26501>>, <<1280, 22291>>,
     <<38335, 19074>>, <<58040, 31252>>, <<31665, 11182>>, <<3254, 6968>>,
     <<37586, 36507>>, <<58837, 48653>>, <<31964, 61367>>, <<3035, 57121>>,
     <<34515, 53972>>, <<61908, 57922>>, <<26845, 46072>>, <<8154, 33646>>,
     <<33214, 5837>>, <<63161, 9819>>, <<28592, 30689>>, <<6327, 18295>>,
     <<34824, 23270>>, <<65295, 27248>>, <<26118, 15306>>, <<4353, 2908>>,
     <<36709, 40703>>, <<63586, 44649>>, <<24939, 65491>>, <<5740, 53061>>,
     <<40970, 57976>>, <<55053, 53998>>, <<19972, 33620>>, <<14595, 46018>>,
     <<42855, 9825>>, <<53344, 5879>>, <<18793, 18253>>, <<15982, 30683>>,
     <<44753, 27210>>, <<55766, 23260>>, <<16607, 2918>>, <<14296, 15344>>,
     <<43452, 44627>>, <<57019, 40645>>, <<18354, 53119>>, <<12469, 65513>>,
     <<48573, 61980>>, <<51898, 49802>>, <<21427, 37680>>, <<9396, 41894>>,
     <<47824, 13829>>, <<52695, 1683>>, <<21726, 22313>>, <<9177, 26559>>,
     <<45926, 31278>>, <<50273, 19128>>, <<23912, 6914>>, <<10863, 11156>>,
     <<46091, 48695>>, <<49932, 36513>>, <<23045, 57115>>, <<11522, 61325>>
  >>

\* crc = crc_table[(crc ^ byte) & 0xff] ^ (crc >> 8)
CrcStep(crc, byte) ==
  Xor32(crc_table[XorByte[crc[2] % 256][byte] + 1], Shr8(crc))

\* for (i = 0; i < len; ++i) crc = ... data[i] ..., over data[lo .. hi]
\* (the range is halved so that the evaluation stays shallow)
RECURSIVE CrcLoop(_, _, _, _)
CrcLoop(data, lo, hi, crc) ==
  IF lo > hi THEN crc
  ELSE IF lo = hi THEN CrcStep(crc, data[lo])
  ELSE LET left == CrcLoop(data, lo, (lo + hi) \div 2, crc)
       IN  \* the left half is computed before the right half starts
           IF left[1] >= 0 THEN CrcLoop(data, ((lo + hi) \div 2) + 1, hi, left)
           ELSE left

\* crc32_png(data, len, crc) with len = Len(data)
crc32_png(data, crc) ==
  IF Len(data) = 0 THEN Not32(crc)
  ELSE Not32(CrcLoop(data, 1, Len(data), Not32(crc)))

\* _byteswap_ulong(v) laid out in memory: the four bytes of v, big-endian
BE32(v) == << v[1] \div 256, v[1] % 256, v[2] \div 256, v[2] % 256 >>

\* an int below 2^31 as an unsigned int
U32(n) == << n \div Two16, n % Two16 >>

\* a chunk writer that runs the second CRC step for an empty payload too
write_PNG_ChunkUnguarded(type, data) ==
  LET crc0 == crc32_png(type, << 0, 0 >>)
  IN  BE32(U32(Len(data))) \o type \o data \o BE32(crc32_png(data, crc0))

\* write_PNG_Chunk(buffer, type, data, length): the bytes appended
write_PNG_Chunk(type, data) ==
  LET crc0 == crc32_png(type, << 0, 0 >>)
      crc == IF Len(data) > 0 THEN crc32_png(data, crc0) ELSE crc0
  IN  BE32(U32(Len(data))) \o type \o data \o BE32(crc)

\* ------------------------------------------------------------------------
\* SaveToPNG
\* ------------------------------------------------------------------------
PngSignature == << 137, 80, 78, 71, 13, 10, 26, 10 >>
TypeIHDR == << 73, 72, 68, 82 >>
TypePLTE == << 80, 76, 84, 69 >>
TypetRNS == << 116, 82, 78, 83 >>
TypeIDAT == << 73, 68, 65, 84 >>
TypeIEND == << 73, 69, 78, 68 >>

\* ihdr.ct for the mode
PngColorType(mode) == IF mode = 8 THEN 3 ELSE IF mode = 24 THEN 2 ELSE 6

\* the 13 bytes of ihdr: w, h (big-endian), bd = 8, ct, cm, f, i
PngIHDR(w, h, mode) ==
  BE32(U32(w)) \o BE32(U32(h)) \o << 8, PngColorType(mode), 0, 0, 0 >>

\* plte[i * 3 + 0 .. 2] = palette[i].r, .g, .b
PngPLTE(p) ==
  [k \in 1..768 |-> p[((k - 1) \div 3) + 1][((k - 1) % 3) + 1]] \o << >>

\* memset(trns, 255, 256); trns[0] = 0
PngtRNS == [k \in 1..256 |-> IF k = 1 THEN 0 ELSE 255] \o << >>

\* bytes per pixel of a scanline
PngPixelBytes(mode) == IF mode = 8 THEN 1 ELSE IF mode = 24 THEN 3 ELSE 4

\* one scanline whose alpha is 0 for every pixel of a transparent image
PngScanlineAlphaAll(px, w, y, p, transparent, mode) ==
  [k \in 1..(1 + w * PngPixelBytes(mode)) |->
     IF k = 1 THEN 0
     ELSE LET x == (k - 2) \div PngPixelBytes(mode)
              ch == (k - 2) % PngPixelBytes(mode)
              idx == px[y * w + x + 1]
          IN  IF mode = 8 THEN idx
              ELSE IF ch < 3 THEN Pal(p, idx)[ch + 1]
              ELSE IF transparent THEN 0 ELSE 255]

\* one scanline: the filter byte 0, then the pixels of row y
PngScanline(px, w, y, p, transparent, mode) ==
  [k \in 1..(1 + w * PngPixelBytes(mode)) |->
     IF k = 1 THEN 0
     ELSE LET x == (k - 2) \div PngPixelBytes(mode)
              ch == (k - 2) % PngPixelBytes(mode)
              idx == px[y * w + x + 1]
          IN  IF mode = 8 THEN idx
              ELSE IF ch < 3 THEN Pal(p, idx)[ch + 1]
              ELSE IF transparent /\ idx = 0 THEN 0 ELSE 255]

\* idat: the scanlines of rows 0 .. height-1
RECURSIVE PngScanlines(_, _, _, _, _, _, _)
PngScanlines(px, w, h, y, p, transparent, mode) ==
  IF y >= h THEN << >>
  ELSE PngScanline(px, w, y, p, transparent, mode)
       \o PngScanlines(px, w, h, y + 1, p, transparent, mode)

\* Adler-32 of a byte string, as <<b, a>>
RECURSIVE Adler32(_, _, _, _)
Adler32(data, i, a, b) ==
  IF i > Len(data) THEN << b, a >>
  ELSE Adler32(data, i + 1, (a + data[i]) % 65521,
               (b + ((a + data[i]) % 65521)) % 65521)

\* deflate(&zs, Z_FINISH) of zlib, which is not part of this repository:
\* the zlib stream of one stored block holding the input (for inputs of at
\* most 65535 bytes), an encoding every inflater turns back into the input
Deflate(data) ==
  << 120, 156, 1 >> \o LE16(Len(data)) \o LE16(65535 - Len(data)) \o data
  \o BE32(Adler32(data, 1, 1, 0))

\* a buffer with a PLTE chunk in every mode
PngBufferPlteAlways(px, w, h, p, transparent, mode) ==
  PngSignature
  \o write_PNG_Chunk(TypeIHDR, PngIHDR(w, h, mode))
  \o write_PNG_Chunk(TypePLTE, PngPLTE(p))
  \o (IF mode = 8 /\ transparent
        THEN write_PNG_Chunk(TypetRNS, PngtRNS) ELSE << >>)
  \o write_PNG_Chunk(TypeIDAT,
                     Deflate(PngScanlines(px, w, h, 0, p, transparent, mode)))
  \o write_PNG_Chunk(TypeIEND, << >>)

\* the buffer `png` assembled by SaveToPNG, given the mode read at each of
\* its three uses of g_default_PNG_Mode
PngBuffer(px, w, h, p, transparent, mode) ==
  PngSignature
  \o write_PNG_Chunk(TypeIHDR, PngIHDR(w, h, mode))
  \o (IF mode = 8
        THEN write_PNG_Chunk(TypePLTE, PngPLTE(p))
             \o (IF transparent THEN write_PNG_Chunk(TypetRNS, PngtRNS) ELSE << >>)
        ELSE << >>)
  \o write_PNG_Chunk(TypeIDAT,
                     Deflate(PngScanlines(px, w, h, 0, p, transparent, mode)))
  \o write_PNG_Chunk(TypeIEND, << >>)

\* SaveToPNG(dstStream, pixels, Width, Height, palette, useTransparency),
\* called for cnv = "PNG"; the value of dst.write is not looked at
SaveToPNG ==
  /\ pc = "dispatch"
  /\ arg.cnv # "BMP" /\ arg.cnv # "TGA8" /\ arg.cnv # "TGA"
  /\ arg.cnv = "PNG"
  /\ IF RasterCovers
       THEN \/ \* deflateInit(&zs, Z_DEFAULT_COMPRESSION) != Z_OK
               Return(1) /\ dst' = dst
            \/ LET buffer == PngBuffer(pixels, header.Width, header.Height,
                                       palette, useTransparency, g_default_PNG_Mode)
               IN  \E room \in Rooms(Len(buffer)) :
                     /\ dst' = write(dst, buffer, room)
                     /\ Return(0)
       ELSE \* the scanline loops read pixels outside the raster
            /\ dst' = [dst EXCEPT !.ops = Append(@, DstUndefined)]
            /\ OutOfBounds
  /\ UNCHANGED << g_default_PNG_Mode, chosen, listing, png, earlier, arg, file, srcPos, srcOps, header,
                  pixel_count, palette, pixels, pos, A, B, shortRun >>

\* ------------------------------------------------------------------------
\* SaveToPNG read by read, for a call that runs while the dialog is open
\* ------------------------------------------------------------------------
\* what SaveToPNG leaves untouched between two reads of g_default_PNG_Mode
PngLocals ==
  << g_default_PNG_Mode, chosen, listing, earlier, arg, file, srcPos, srcOps, header,
     pixel_count, palette, pixels, pos, A, B, shortRun >>

\* if (g_default_PNG_Mode == PNGMode::PNG_8) ihdr.ct = 3;
SaveToPNG_332 ==
  /\ pc = "dispatch"
  /\ arg.cnv # "BMP" /\ arg.cnv # "TGA8" /\ arg.cnv # "TGA"
  /\ arg.cnv = "PNG"
  /\ IF g_default_PNG_Mode = 8
       THEN /\ png' = PngSignature
                      \o write_PNG_Chunk(TypeIHDR,
                                         PngIHDR(header.Width, header.Height, 8))
            /\ pc' = "png339"
       ELSE /\ png' = PngSignature
            /\ pc' = "png333"
  /\ UNCHANGED << PngLocals, dst, res >>

\* else if (g_default_PNG_Mode == PNGMode::PNG_24) ihdr.ct = 2; else ihdr.ct = 6;
SaveToPNG_333 ==
  /\ pc = "png333"
  /\ png' = png \o write_PNG_Chunk(TypeIHDR,
                                   PngIHDR(header.Width, header.Height,
                                           IF g_default_PNG_Mode = 24 THEN 24 ELSE 32))
  /\ pc' = "png339"
  /\ UNCHANGED << PngLocals, dst, res >>

\* if (g_default_PNG_Mode == PNGMode::PNG_8) { PLTE; if (useTransparency) tRNS; }
SaveToPNG_339 ==
  /\ pc = "png339"
  /\ png' = png \o (IF g_default_PNG_Mode = 8
                      THEN write_PNG_Chunk(TypePLTE, PngPLTE(palette))
                           \o (IF useTransparency
                                 THEN write_PNG_Chunk(TypetRNS, PngtRNS) ELSE << >>)
                      ELSE << >>)
  /\ pc' = "png359"
  /\ UNCHANGED << PngLocals, dst, res >>

\* the rest of SaveToPNG once the scanline layout is chosen: idat, deflate,
\* IDAT, IEND and the one write
PngFinish(mode) ==
  IF RasterCovers
    THEN \/ \* deflateInit(&zs, Z_DEFAULT_COMPRESSION) != Z_OK
            Return(1) /\ dst' = dst /\ png' = png
         \/ LET all == png
                       \o write_PNG_Chunk(TypeIDAT,
                             Deflate(PngScanlines(pixels, header.Width, header.Height,
                                                  0, palette, useTransparency, mode)))
                       \o write_PNG_Chunk(TypeIEND, << >>)
            IN  /\ png' = all
                /\ \E room \in Rooms(Len(all)) :
                     /\ dst' = write(dst, all, room)
                     /\ Return(0)
    ELSE \* the scanline loops read pixels outside the raster
         /\ dst' = [dst EXCEPT !.ops = Append(@, DstUndefined)]
         /\ png' = png
         /\ OutOfBounds

\* if (g_default_PNG_Mode == PNGMode::PNG_8) { rows of indices }
SaveToPNG_359 ==
  /\ pc = "png359"
  /\ IF g_default_PNG_Mode = 8
       THEN PngFinish(8)
       ELSE pc' = "png370" /\ UNCHANGED << png, dst, res >>
  /\ UNCHANGED PngLocals

\* else if (g_default_PNG_Mode == PNGMode::PNG_24) { RGB rows } else { RGBA rows }
SaveToPNG_370 ==
  /\ pc = "png370"
  /\ PngFinish(IF g_default_PNG_Mode = 24 THEN 24 ELSE 32)
  /\ UNCHANGED PngLocals

\* ConfigDlgProc, WM_COMMAND IDOK, handled by the thread of the dialog
\* wherever the converting thread is
ConfigDlgProc_IDOK_Meanwhile(checked) ==
  /\ g_default_PNG_Mode' = SelectedMode(checked, g_default_PNG_Mode)
  /\ chosen' = IF checked \in {8, 24, 32} THEN checked ELSE chosen
  /\ UNCHANGED << listing, pc, run >>

\* a dispatch that rewinds the destination before it rejects the token
UnsupportedAfterSeek ==
  /\ pc = "dispatch"
  /\ arg.cnv \notin {"BMP", "TGA8", "TGA", "PNG"}
  /\ dst' = seek_abs(dst, 0, TRUE)
  /\ Return(1)
  /\ UNCHANGED << g_default_PNG_Mode, chosen, listing, png, earlier, arg, file, srcPos, srcOps, header,
                  pixel_count, palette, pixels, pos, A, B, shortRun >>

\* the final else of the dispatch: unsupported target format, return 1
Unsupported ==
  /\ pc = "dispatch"
  /\ arg.cnv \notin {"BMP", "TGA8", "TGA", "PNG"}
  /\ Return(1)
  /\ UNCHANGED << g_default_PNG_Mode, chosen, listing, png, earlier, arg, file, srcPos, srcOps, header,
                  pixel_count, palette, pixels, pos, A, B, dst, shortRun >>

\* the five bits of Flags that ConvertPID tests
TestedBits == {1, 8, 16, 32, 128}

\* the header of f has no other bit of Flags set and zero reserved fields
PlainHeader(f) ==
  /\ f.Flags >= 0
  /\ f.Flags < 256
  /\ \A m \in {2, 4, 64} : ~FlagSet(f.Flags, m)
  /\ f.U = << 0, 0, 0, 0 >>

\* the call that has returned was refused nothing by its environment: the
\* allocation of the raster and deflateInit succeeded, and the destination
\* took every write in full and made every seek
Granted ==
  /\ pc = "done"
  /\ \A i \in 1..Len(dst.ops) :
       dst.ops[i].op \in {"write", "seek"} /\ dst.ops[i].got = dst.ops[i].req
  /\ ~(/\ res = 1 /\ PixelsSize > 0 /\ Len(srcOps) > 0
        /\ srcOps[Len(srcOps)] = SrcSeek(PixelDataOffset, "soFromBeginning",
                                         PixelDataOffset))
  /\ ~(/\ res = 1 /\ arg.cnv = "PNG" /\ header.ID = PID_MAGIC
        /\ PixelsSize > 0 /\ pos = PixelsSize /\ dst.ops = << >>)

\* the host takes the result as Leave does, where the result of a call on a
\* file with a plain header is kept for the calls that follow
LeaveKeeping ==
  /\ pc \in {"done", "fault"}
  /\ earlier' = IF Granted /\ PlainHeader(file)
                  THEN [seen |-> TRUE, file |-> file, cnv |-> arg.cnv,
                        mode |-> g_default_PNG_Mode, res |-> res, dst |-> dst]
                  ELSE earlier
  /\ pc' = "idle"
  /\ arg' = NoArg
  /\ file' = NoFile
  /\ srcPos' = 0
  /\ srcOps' = << >>
  /\ header' = NoHeader
  /\ pixel_count' = << 0, 0 >>
  /\ palette' = << >>
  /\ pixels' = << >>
  /\ pos' = 0
  /\ A' = 0
  /\ B' = 0
  /\ dst' = EmptyStream
  /\ res' = 0
  /\ shortRun' = FALSE
  /\ png' = << >>
  /\ UNCHANGED << g_default_PNG_Mode, chosen, listing >>

\* the host takes the result (or handles the fault) and the call's objects
\* are gone
Leave ==
  /\ pc \in {"done", "fault"}
  /\ pc' = "idle"
  /\ arg' = NoArg
  /\ file' = NoFile
  /\ srcPos' = 0
  /\ srcOps' = << >>
  /\ header' = NoHeader
  /\ pixel_count' = << 0, 0 >>
  /\ palette' = << >>
  /\ pixels' = << >>
  /\ pos' = 0
  /\ A' = 0
  /\ B' = 0
  /\ dst' = EmptyStream
  /\ res' = 0
  /\ shortRun' = FALSE
  /\ png' = << >>
  /\ UNCHANGED << g_default_PNG_Mode, chosen, listing, earlier >>

\* ------------------------------------------------------------------------
\* The inputs enumerated
\* ------------------------------------------------------------------------
File(id, flags, w, h, body, padLen) ==
  [ID |-> id, Flags |-> flags, Width |-> w, Height |-> h, U |-> << 0, 0, 0, 0 >>,
   body |-> body, padLen |-> padLen, cut |-> -1, bad |-> -1, seekOK |-> TRUE]

Input(f, cnv) == [src |-> 1, dst |-> 1, cnv |-> cnv, file |-> f, at |-> 0]

\* every combination of the five flag bits the converter looks at
FlagCombos ==
  {t + m + i + r + p : t \in {0, 1}, m \in {0, 8}, i \in {0, 16},
                       r \in {0, 32}, p \in {0, 128}}

\* the format tokens: the four the dispatch knows and two it does not
Tokens == {"BMP", "TGA", "TGA8", "PNG", "JPG", "bmp"}

\* pixel data that decodes to the n distinct indices 1 .. n: one literal run
\* in grammar A, n literal bytes in grammar B
Ramp(flags, n) ==
  IF FlagSet(flags, 32) THEN << n >> \o [k \in 1..n |-> k]
  ELSE [k \in 1..n |-> k]

\* s without its last element
Front(s) == SubSeq(s, 1, Len(s) - 1)

\* images of every small size and flag combination, with an embedded
\* palette behind the pixel data exactly when flag 0x80 asks for one
ImageFiles ==
  {File(PID_MAGIC, fl, w, h, Ramp(fl, w * h),
        IF FlagSet(fl, 128) THEN PaletteBytes ELSE 0) :
     fl \in FlagCombos, w \in 1..MaxDim, h \in 1..MaxDim}

\* images whose pixel data is one byte short, and images whose flag 0x80
\* is set although the file is too small to hold a palette
ShortFiles ==
  {File(PID_MAGIC, fl, w, h, Front(Ramp(fl, w * h)), 0) :
     fl \in {0, 32}, w \in 1..MaxDim, h \in 1..MaxDim}
  \cup {File(PID_MAGIC, 128, 1, 1, << 5 >>, 0)}

\* widths and heights at the edges of the header checks
EdgeDims ==
  { << 0, 1 >>, << 1, 0 >>, << -1, 1 >>, << 1, -2147483647 >>,
    << 32768, 32768 >>, << 32768, 32769 >>, << 65536, 65536 >>,
    << 65536, 65537 >>, << 2147483647, 1 >>, << 2147483647, 2147483647 >> }

\* headers at the edges: magic, dimensions, truncation
EdgeFiles ==
  {File(id, fl, d[1], d[2], << 5 >>, 0) :
     id \in {PID_MAGIC, 0}, fl \in {0, 8, 32}, d \in EdgeDims}
  \cup {[File(PID_MAGIC, 0, 1, 1, << 5 >>, 0) EXCEPT !.cut = c] : c \in {0, 12, 31, 32}}

\* host streams that fail: Seek fails, or a byte cannot be read
FailingFiles ==
  {[File(PID_MAGIC, fl, 1, 1, << 5 >>, PaletteBytes) EXCEPT !.seekOK = FALSE] :
     fl \in {0, 128}}
  \cup {[File(PID_MAGIC, fl, 1, 1, << 5 >>, PaletteBytes) EXCEPT !.bad = b] :
          fl \in {0, 128}, b \in {0, 32, 33, 800}}

\* images for every token: plain, transparent, with an embedded palette,
\* and run-length coded with both flips
FormatFiles ==
  {File(PID_MAGIC, fl, d[1], d[2], Ramp(fl, d[1] * d[2]),
        IF FlagSet(fl, 128) THEN PaletteBytes ELSE 0) :
     fl \in {0, 1, 56, 129}, d \in {<< 1, 1 >>, << MaxDim, MaxDim >>}}

\* 2x1 images whose first pixel has index 0: plain, transparent, and both
\* with an embedded palette
ZeroFiles ==
  {File(PID_MAGIC, fl, 2, 1, << 0, 3 >>,
        IF FlagSet(fl, 128) THEN PaletteBytes ELSE 0) : fl \in {0, 1, 128, 129}}

\* a 1x1 image with the default palette whose one pixel-data byte is 0x05
OnePixelFile == File(PID_MAGIC, 0, 1, 1, << 5 >>, 0)

\* the calls the host makes: every small image as a BMP, some images with
\* every token, short, edge and failing files, null stream pointers, a
\* source stream positioned behind offset 0, a fill run of two for the one
\* cell of a raster whose size wrapped
Inputs ==
  {Input(f, "BMP") : f \in ImageFiles}
  \cup {Input(OnePixelFile, "BMP")}
  \cup {Input(f, cnv) : f \in ZeroFiles, cnv \in {"BMP", "TGA8", "PNG"}}
  \cup {Input(f, cnv) : f \in FormatFiles, cnv \in Tokens}
  \cup {Input(f, cnv) : f \in ShortFiles \cup EdgeFiles \cup FailingFiles,
                        cnv \in {"BMP", "PNG", "JPG"}}
  \cup {[Input(File(PID_MAGIC, 0, 1, 1, << 5 >>, 0), "BMP")
           EXCEPT !.src = p[1], !.dst = p[2]] :
          p \in {<< 0, 0 >>, << 0, 1 >>, << 1, 0 >>}}
  \cup {[Input(File(PID_MAGIC, 0, 1, 1, << 5 >>, 0), cnv) EXCEPT !.at = 4] :
          cnv \in {"BMP", "JPG"}}
  \cup {Input(File(PID_MAGIC, 32, 2147483647, 2147483647, << 130 >>, 0), "BMP")}

\* the bytes the pixel data of the decoder's inputs is made of: in each
\* grammar the control bytes at and around its threshold, and two values
ControlBytes(flags) ==
  IF FlagSet(flags, 32) THEN {0, 2, 7, 128, 130} ELSE {0, 7, 192, 193, 197}

\* every byte string over ControlBytes of at most MaxBody bytes
Bodies(flags) == UNION {[1..n -> ControlBytes(flags)] : n \in 0..MaxBody}

\* rasters of two, four and MaxCells cells
DecodeDims == { << 1, 2 >>, << 2, 2 >>, << 1, MaxCells >> }

\* the calls that exercise the decoder: every body in both grammars, and
\* some of them with the tokens of the dispatch
DecodeInputs ==
  UNION {{Input(File(PID_MAGIC, fl, d[1], d[2], b, 0), "JPG") :
            d \in DecodeDims, b \in Bodies(fl)} : fl \in {0, 32}}
  \cup {Input(File(PID_MAGIC, fl, 1, 2, b, 0), cnv) :
          fl \in {0, 32}, b \in {<< 130 >>, << 7, 2, 0 >>},
          cnv \in {"BMP", "TGA", "PNG"}}

\* ------------------------------------------------------------------------
\* Specifications
\* ------------------------------------------------------------------------
\* the plug-in after loading
Loaded ==
  /\ g_default_PNG_Mode = 8
  /\ chosen = 8
  /\ pc = "idle"
  /\ arg = NoArg
  /\ file = NoFile
  /\ srcPos = 0
  /\ srcOps = << >>
  /\ header = NoHeader
  /\ pixel_count = << 0, 0 >>
  /\ palette = << >>
  /\ pixels = << >>
  /\ pos = 0
  /\ A = 0
  /\ B = 0
  /\ dst = EmptyStream
  /\ res = 0
  /\ shortRun = FALSE
  /\ png = << >>
  /\ earlier = NoCall
  /\ compatible = -1
  /\ list = [NumFormats |-> -1, List |-> << >>]

Init == Loaded /\ nam = NullString

\* the stages of a call in progress
Stage ==
  \/ Construct
  \/ ReadHeader
  \/ ValidateHeader
  \/ ResolvePalette
  \/ SeekPixelData
  \/ AllocPixels
  \/ DecodeRLE
  \/ DecodeRaw
  \/ CheckSize
  \/ Flip
  \/ SaveToBMP
  \/ SaveToTGA
  \/ SaveToPNG
  \/ Unsupported
  \/ Leave

\* the configuration dialog, between calls
Configure ==
  \/ \E checked \in {0, 8, 24, 32} : ConfigDlgProc_IDOK(checked)
  \/ ConfigDlgProc_IDCANCEL

Next ==
  \/ \E in \in Inputs : ConvertPID(in)
  \/ Stage
  \/ Configure

Spec == Init /\ [][Next]_vars

\* the calls that exercise the decoder, the dialog staying closed
NextDecode ==
  \/ \E in \in DecodeInputs : ConvertPID(in)
  \/ Stage

SpecDecode == Init /\ [][NextDecode]_vars

\* an image one row high and 65536 wide, run-length coded as fill runs: 516
\* runs of 127 cells and one of 4
WideFile ==
  File(PID_MAGIC, 32, Two16, 1, [k \in 1..517 |-> IF k <= 516 THEN 255 ELSE 132], 0)

\* the wide image as a Targa file, and 1x1 images for the other tokens
WideInputs ==
  {Input(WideFile, "TGA8")}
  \cup {Input(File(PID_MAGIC, fl, 1, 1, << 1, 1 >>, 0), cnv) :
          fl \in {0, 8, 32}, cnv \in {"BMP", "TGA", "PNG", "JPG"}}

\* the call ConvertPID(src, dst, "TGA8") on the wide image at its dispatch:
\* the state the 517 iterations of the decoding loop lead to
WideDecoded ==
  /\ g_default_PNG_Mode = 8
  /\ chosen = 8
  /\ nam = NullString
  /\ compatible = -1
  /\ list = [NumFormats |-> -1, List |-> << >>]
  /\ pc = "dispatch"
  /\ arg = [src |-> 1, dst |-> 1, cnv |-> "TGA8"]
  /\ file = WideFile
  /\ srcPos = HeaderSize + 517
  /\ srcOps = << SrcRead(0, HeaderSize, HeaderSize),
                 SrcSeek(PixelDataOffset, "soFromBeginning", PixelDataOffset) >>
              \o [k \in 1..517 |-> SrcRead(PixelDataOffset + k - 1, 1, 1)]
  /\ header = [ID |-> PID_MAGIC, Flags |-> 32, Width |-> Two16, Height |-> 1,
               U |-> << 0, 0, 0, 0 >>]
  /\ pixel_count = << 1, 0 >>
  /\ palette = DefaultPalette(FALSE)
  /\ pixels = Fill(Two16, 0) \o << >>
  /\ pos = Two16
  /\ A = 132
  /\ B = 0
  /\ dst = EmptyStream
  /\ res = 0
  /\ shortRun = FALSE
  /\ png = << >>
  /\ earlier = NoCall

\* the calls with the wide image, the dialog staying closed; the first
\* call is taken up at its dispatch
NextWide ==
  \/ \E in \in WideInputs : ConvertPID(in)
  \/ Stage

SpecWide == WideDecoded /\ [][NextWide]_vars

\* PNG conversions of a raw and of a run-length coded image of two pixels,
\* with and without transparency
RaceInputs ==
  {Input(File(PID_MAGIC, fl, 2, 1, << 0, 3 >>, 0), "PNG") : fl \in {0, 1}}
  \cup {Input(File(PID_MAGIC, 33, 2, 1, << 2, 0, 3 >>, 0), "PNG")}

\* a conversion to PNG on one thread, the dialog on another
NextRace ==
  \/ \E in \in RaceInputs : ConvertPID(in)
  \/ Construct
  \/ ReadHeader
  \/ ValidateHeader
  \/ ResolvePalette
  \/ SeekPixelData
  \/ AllocPixels
  \/ DecodeRLE
  \/ DecodeRaw
  \/ CheckSize
  \/ Flip
  \/ SaveToPNG_332
  \/ SaveToPNG_333
  \/ SaveToPNG_339
  \/ SaveToPNG_359
  \/ SaveToPNG_370
  \/ Leave
  \/ \E checked \in {0, 8, 24, 32} : ConfigDlgProc_IDOK_Meanwhile(checked)

SpecRace == Init /\ [][NextRace]_vars

\* two images of two pixels, raw and run-length coded with both flips
PlainFiles ==
  {File(PID_MAGIC, 1, 2, 1, << 0, 3 >>, 0),
   File(PID_MAGIC, 56, 2, 1, << 2, 0, 3 >>, 0)}

\* f with other bits of Flags set and with reserved fields that are not 0
Varied(f) ==
  {f,
   [f EXCEPT !.Flags = @ + 2 + 4 + 64, !.U = << 1, 256, -1, 65536 >>],
   [f EXCEPT !.Flags = @ + 256 - 2147483647 - 1],
   [f EXCEPT !.U = << 0, 0, 0, 10 >>]}

\* the plain files and their variations, each with a token for every
\* branch of the dispatch
PairInputs ==
  {Input(g, cnv) : g \in UNION {Varied(f) : f \in PlainFiles},
                   cnv \in {"BMP", "TGA8", "PNG", "JPG"}}

\* calls one after the other, each compared with the one kept
NextPairs ==
  \/ \E in \in PairInputs : ConvertPID(in)
  \/ Construct
  \/ ReadHeader
  \/ ValidateHeader
  \/ ResolvePalette
  \/ SeekPixelData
  \/ AllocPixels
  \/ DecodeRLE
  \/ DecodeRaw
  \/ CheckSize
  \/ Flip
  \/ SaveToBMP
  \/ SaveToTGA
  \/ SaveToPNG
  \/ Unsupported
  \/ LeaveKeeping
  \/ Configure

SpecPairs == Init /\ [][NextPairs]_vars

\* the names the host asks about: stems and endings around ".pid", with
\* upper and lower case, further dots, and NUL characters
NameStems == { << >>, << 97 >>, << 97, 46, 98 >>, << 97, 0 >> }
NameEndings ==
  { << >>, << 46, 112, 105, 100 >>, << 46, 80, 73, 68 >>, << 46, 80, 105, 100 >>,
    << 46, 112, 73, 68 >>, << 46, 80, 73, 68, 88 >>, << 46, 112, 110, 103 >>,
    << 46, 112, 105 >>, << 112, 105, 100 >>, << 46, 112, 105, 100, 46 >>,
    << 46, 112, 105, 100, 0, 120 >>, << 46, 112, 0, 105, 100 >>,
    << 46, 112, 105, 100, 46, 112, 110, 103 >>,
    << 46, 112, 110, 103, 46, 112, 105, 100 >> }
Names == {Str(s \o e) : s \in NameStems, e \in NameEndings} \cup {NullString}

\* the host asks about one name, the dialog being used in between
InitNames == Loaded /\ nam \in Names

NextNames ==
  \/ IsFileCompatible
  \/ GetFileConvert
  \/ Configure

SpecNames == InitNames /\ [][NextNames]_vars

\* ------------------------------------------------------------------------
\* Properties
\* ------------------------------------------------------------------------
\* the raster has been allocated
PastAlloc == pc \in {"decode", "checkSize", "flip", "dispatch"}

\* the mathematical product w * h exceeds n (w, h >= 1), without forming it
ProductExceeds(w, h, n) == w > n \div h

\* the mathematical product w * h equals n (w, h >= 1)
ProductIs(w, h, n) == n % h = 0 /\ w = n \div h

\* C1: a call of ConvertPID ends by returning 0 or 1 to the host: it never
\* leaves through a fault that the host has to handle, and what it returns
\* is 0 or 1.
C1_ReturnsZeroOrOne ==
  /\ pc # "fault"
  /\ pc = "done" => res \in {0, 1}

\* some write to the destination took fewer bytes than it was asked to
ShortWrite(d) ==
  \E i \in 1..Len(d.ops) : d.ops[i].op = "write" /\ d.ops[i].got < d.ops[i].req

\* C2: a conversion in which a write to the destination stream took fewer
\* bytes than requested returns 1, whichever the output format: it never
\* returns 0 after a short or failed write.
C2_ShortWriteFails ==
  (pc = "done" /\ ShortWrite(dst)) => res = 1

\* C3: with the run-length flag set, once the decoder has read a control
\* byte A <= 128 with A greater than the number of bytes left in the
\* source, the conversion returns 1.
C3_ShortLiteralRunFails ==
  (pc = "done" /\ shortRun) => res = 1

\* the tokens the dispatch knows
SupportedTokens == {"BMP", "TGA", "TGA8", "PNG"}

\* C4: a call with a token other than BMP, TGA, TGA8 and PNG fails
\* immediately: it makes no read and no seek on the source stream and no
\* write and no seek on the destination stream, and it returns 1.
C4_UnknownTokenFailsImmediately ==
  (pc # "idle" /\ arg.cnv \notin SupportedTokens) =>
    /\ srcOps = << >>
    /\ dst.ops = << >>
    /\ pc # "fault"
    /\ pc = "done" => res = 1

\* the bytes the source can deliver from position p, at most n of them
Available(f, p, n) ==
  LET end == IF f.cut >= 0 THEN f.cut ELSE HeaderSize + Len(f.body) + f.padLen
      readable == IF f.bad >= 0 /\ f.bad < end THEN f.bad ELSE end
  IN  IF readable - p < 0 THEN 0 ELSE IF readable - p < n THEN readable - p ELSE n

\* C5: the header stage reads 32 bytes at the current source position; the
\* call returns 1 if fewer than 32 bytes were read, if the magic is not 10,
\* or if Width <= 0 or Height <= 0; a header that passes these checks and
\* the size ceiling goes on to the palette stage.
C5_HeaderStage ==
  [][ /\ pc = "readHeader" =>
           /\ srcOps' = << [op |-> "read", at |-> srcPos, req |-> 32,
                            got |-> Available(file, srcPos, 32)] >>
           /\ IF Available(file, srcPos, 32) < 32
                THEN pc' = "done" /\ res' = 1
                ELSE /\ pc' = "validate"
                     /\ srcPos = 0 =>
                          /\ header'.ID = file.ID
                          /\ header'.Flags = file.Flags
                          /\ header'.Width = file.Width
                          /\ header'.Height = file.Height
      /\ pc = "validate" =>
           IF header.ID # 10 \/ header.Width <= 0 \/ header.Height <= 0
             THEN pc' = "done" /\ res' = 1
             ELSE IF ExceedsCeiling(SizeMul(header.Width, header.Height))
               THEN pc' = "done" /\ res' = 1
               ELSE pc' = "palette" /\ srcOps' = srcOps ]_vars

\* C5: a header with the right magic and Width <= 0 has been read whole and
\* the call has returned 1 without another operation on the source
C5_Witness ==
  /\ pc = "done" /\ res = 1
  /\ Len(srcOps) = 1 /\ srcOps[1].got = 32
  /\ header.ID = 10 /\ header.Width <= 0 /\ header.Height > 0

\* C6: a header with Width, Height >= 1 whose mathematical product exceeds
\* 2^30 never gets a raster allocated, and a header with the right magic
\* whose product is exactly 2^30 is not rejected by the header stage.
C6_CeilingOnProduct ==
  /\ PastAlloc => ~ProductExceeds(header.Width, header.Height, MaxPixelCount)
  /\ (/\ pc = "done" /\ Len(srcOps) = 1 /\ srcOps[1].got = 32
      /\ header.ID = 10 /\ header.Width > 0 /\ header.Height > 0)
       => ~ProductIs(header.Width, header.Height, MaxPixelCount)

\* C7: the orientation and encoding stages are reached only with exactly
\* Width * Height indices produced; a decoder that stopped short of them,
\* a required byte being unreadable, makes the call return 1.
C7_ExactCountOrFail ==
  /\ pc \in {"flip", "dispatch"} =>
       ProductIs(header.Width, header.Height, Len(pixels))
  /\ (pc = "done" /\ ~ExceedsCeiling(pixel_count) /\ Len(pixels) < PixelsSize)
       => res = 1

\* n indices of value v
Repeat(n, v) == [k \in 1..n |-> v]

\* the first n elements of s, all of s if it has fewer
Clip(s, n) == SubSeq(s, 1, IF Len(s) < n THEN Len(s) ELSE n)

\* s without its first n elements
Drop(s, n) == SubSeq(s, n + 1, Len(s))

\* the reference decoder of grammar A on the bytes `bytes`, for a raster
\* of `cells` cells of which `out` have been produced: whether it fills the
\* raster, the indices produced and the bytes not consumed; a run ends
\* where the raster is full
RECURSIVE RefGrammarA(_, _, _)
RefGrammarA(bytes, cells, out) ==
  IF Len(out) >= cells THEN [ok |-> TRUE, out |-> out, rest |-> bytes]
  ELSE IF bytes = << >> THEN [ok |-> FALSE, out |-> out, rest |-> bytes]
  ELSE LET a == Head(bytes)
           left == cells - Len(out)
           need == IF a < left THEN a ELSE left
       IN  IF a > 128
             THEN RefGrammarA(Tail(bytes), cells,
                              out \o Clip(Repeat(a - 128, 0), left))
             ELSE IF a = 0 THEN RefGrammarA(Tail(bytes), cells, out)
             ELSE IF Len(Tail(bytes)) < need
               THEN [ok |-> FALSE, out |-> out \o Tail(bytes), rest |-> << >>]
               ELSE RefGrammarA(Drop(Tail(bytes), need), cells,
                                out \o Clip(Tail(bytes), need))

\* C8: with flag 0x20 set the decoder agrees with the reference decoder of
\* grammar A on every source: it fills the raster exactly when the
\* reference does, with the same indices, having consumed the same bytes
\* (A > 128: A - 128 zeros and no further byte; A <= 128, 128 included:
\* the next A bytes verbatim; A = 0: nothing).
C8_GrammarA ==
  (pc = "checkSize" /\ rleCompression) =>
    LET ref == RefGrammarA(file.body, PixelsSize, << >>)
    IN  /\ (pos = PixelsSize) = ref.ok
        /\ pixels = ref.out
        /\ ref.ok => srcPos = 32 + Len(file.body) - Len(ref.rest)

\* C8: the source holding only 0x82 behind the header of a raster of two
\* cells has been decoded to two zero pixels
C8_Witness ==
  /\ pc = "checkSize" /\ rleCompression
  /\ file.body = << 130 >> /\ PixelsSize = 2
  /\ pos = 2 /\ pixels = << 0, 0 >>

\* the reference decoder of grammar B
RECURSIVE RefGrammarB(_, _, _)
RefGrammarB(bytes, cells, out) ==
  IF Len(out) >= cells THEN [ok |-> TRUE, out |-> out, rest |-> bytes]
  ELSE IF bytes = << >> THEN [ok |-> FALSE, out |-> out, rest |-> bytes]
  ELSE LET a == Head(bytes)
           left == cells - Len(out)
       IN  IF a > 192
             THEN IF Len(bytes) < 2
                    THEN [ok |-> FALSE, out |-> out, rest |-> << >>]
                    ELSE RefGrammarB(Drop(bytes, 2), cells,
                                     out \o Clip(Repeat(a - 192, bytes[2]), left))
             ELSE RefGrammarB(Tail(bytes), cells, out \o << a >>)

\* C9: with flag 0x20 clear the decoder agrees with the reference decoder
\* of grammar B on every source: it fills the raster exactly when the
\* reference does, with the same indices, having consumed the same bytes
\* (A > 192: the next byte, A - 192 times; A <= 192, 192 included: A
\* itself, once, and no further byte).
C9_GrammarB ==
  (pc = "checkSize" /\ ~rleCompression) =>
    LET ref == RefGrammarB(file.body, PixelsSize, << >>)
    IN  /\ (pos = PixelsSize) = ref.ok
        /\ pixels = ref.out
        /\ ref.ok => srcPos = 32 + Len(file.body) - Len(ref.rest)

\* C9: the bytes 0xC5, 0x07 behind the header of a raster of five cells
\* have been decoded to five pixels of value 7
C9_Witness ==
  /\ pc = "checkSize" /\ ~rleCompression
  /\ file.body = << 197, 7 >> /\ PixelsSize = 5
  /\ pos = 5 /\ pixels = << 7, 7, 7, 7, 7 >>

\* C10: the orientation stage hands on a raster `out` with
\* out[y*W + x] = in[sy*W + sx], sy = H-1-y if invert else y, sx = W-1-x if
\* mirror else x, for every cell, `in` being the raster as it was before
\* the stage; with neither flag set it hands on the raster unchanged.
C10_Orientation ==
  [][ (pc = "flip" /\ pc' = "dispatch") =>
        IF mirror \/ invert
          THEN /\ Len(pixels') = header.Width * header.Height
               /\ \A y \in 0..(header.Height - 1), x \in 0..(header.Width - 1) :
                    pixels'[y * header.Width + x + 1] =
                      pixels[(IF invert THEN header.Height - 1 - y ELSE y)
                               * header.Width
                             + (IF mirror THEN header.Width - 1 - x ELSE x) + 1]
          ELSE pixels' = pixels ]_vars

\* C10: the 2x2 raster [[1,2],[3,4]] of a file with mirror and invert set
\* has been handed on as [[4,3],[2,1]]
C10_Witness ==
  /\ pc = "dispatch" /\ mirror /\ invert
  /\ header.Width = 2 /\ header.Height = 2
  /\ file.body = << 1, 2, 3, 4 >>
  /\ pixels = << 4, 3, 2, 1 >>

\* the number of bytes the write calls ops[lo .. hi] put into the stream
RECURSIVE BytesTaken(_, _, _)
BytesTaken(ops, lo, hi) ==
  IF lo > hi THEN 0
  ELSE IF lo = hi THEN (IF ops[lo].op = "write" THEN ops[lo].got ELSE 0)
  ELSE BytesTaken(ops, lo, (lo + hi) \div 2)
       + BytesTaken(ops, ((lo + hi) \div 2) + 1, hi)

\* the bytes written to the destination by the call that has returned
BytesWritten == BytesTaken(dst.ops, 1, Len(dst.ops))

\* a call has returned 0 for the 1x1 image with Flags = 0x00 and pixel-data
\* byte 0x05, converted to BMP
OnePixelBmpDone ==
  /\ pc = "done"
  /\ res = 0
  /\ arg.cnv = "BMP"
  /\ file = OnePixelFile

\* C11 as the claim states it: the conversion of the 1x1 image writes
\* exactly 58 bytes and the final 3 bytes of the output are the B, G, R
\* components of defaultPalette[5], in that order.
C11_FinalThreeBytes ==
  OnePixelBmpDone =>
    /\ BytesWritten = 58
    /\ Len(dst.data) = 58
    /\ SubSeq(dst.data, 56, 58)
         = << defaultPalette[6][3], defaultPalette[6][2], defaultPalette[6][1] >>

\* C11: converting to BMP the 1x1 image with Flags = 0x00 and pixel-data
\* byte 0x05 writes exactly 58 bytes; the 3 bytes at offsets 54..56, the
\* start of the one pixel row, are the B, G, R components of
\* defaultPalette[5] in that order, and the final byte, at offset 57, is
\* the row's zero padding.
C11_OnePixelBmp ==
  OnePixelBmpDone =>
    /\ BytesWritten = 58
    /\ Len(dst.data) = 58
    /\ SubSeq(dst.data, 55, 57)
         = << defaultPalette[6][3], defaultPalette[6][2], defaultPalette[6][1] >>
    /\ dst.data[58] = 0

C11_Witness ==
  /\ OnePixelBmpDone
  /\ pixels = << 5 >>
  /\ Len(dst.data) = 58

\* the unsigned little-endian value of the n bytes at offset off of data
RECURSIVE LEValue(_, _, _)
LEValue(data, off, n) ==
  IF n = 0 THEN 0 ELSE data[off + 1] + 256 * LEValue(data, off + 1, n - 1)

\* the colour the bitmap and Targa formats show for palette index i: the
\* resolved palette's, black for index 0 of a transparent image
Shown(i) ==
  IF useTransparency /\ i = 0 THEN << 0, 0, 0 >>
  ELSE << palette[i + 1][1], palette[i + 1][2], palette[i + 1][3] >>

\* a call with token BMP has returned 0
BmpDone == pc = "done" /\ res = 0 /\ arg.cnv = "BMP"

\* C12: a successful BMP encode writes exactly 14 + 40 + row_bytes * height
\* bytes with row_bytes = ((width * 3 + 3) & ~3); the k-th row written is
\* raster row height-1-k, each pixel as B, G, R followed by zero padding up
\* to row_bytes; the header declares 24 bits per pixel, a positive height,
\* data offset 54 and file size 54 + row_bytes * height, little-endian.
C12_BmpLayout ==
  BmpDone =>
    LET w == header.Width
        h == header.Height
        row_bytes == 4 * ((w * 3 + 3) \div 4)
        d == dst.data
    IN  /\ BytesWritten = 14 + 40 + row_bytes * h
        /\ Len(d) = 14 + 40 + row_bytes * h
        /\ d[1] = 66 /\ d[2] = 77
        /\ LEValue(d, 2, 4) = 54 + row_bytes * h
        /\ LEValue(d, 10, 4) = 54
        /\ LEValue(d, 14, 4) = 40
        /\ LEValue(d, 18, 4) = w
        /\ h > 0 /\ LEValue(d, 22, 4) = h
        /\ LEValue(d, 26, 2) = 1
        /\ LEValue(d, 28, 2) = 24
        /\ LEValue(d, 30, 4) = 0
        /\ LEValue(d, 34, 4) = row_bytes * h
        /\ \A k \in 0..(h - 1) :
             /\ \A x \in 0..(w - 1) :
                  LET c == Shown(pixels[(h - 1 - k) * w + x + 1])
                      at == 54 + k * row_bytes + 3 * x
                  IN  << d[at + 1], d[at + 2], d[at + 3] >>
                        = << c[3], c[2], c[1] >>
             /\ \A j \in (3 * w)..(row_bytes - 1) :
                  d[54 + k * row_bytes + j + 1] = 0

C12_Witness ==
  /\ BmpDone
  /\ header.Width = 2
  /\ header.Height = 2
  /\ pixels[1] # pixels[3]
  /\ Len(dst.data) = 70

\* a call with a Targa token has returned 0
TgaDone == pc = "done" /\ res = 0 /\ arg.cnv \in {"TGA", "TGA8"}

\* C13: a successful Targa encode writes exactly 18 + 768 + width * height
\* bytes: an 18-byte header with id length 0, colour-map type 1, image type
\* 1, colour-map origin 0, colour-map length 256, entry size 24, x and y
\* origin 0, pixel depth 8 and descriptor 0x20, then 256 palette entries as
\* B, G, R, then raster rows 0 .. height-1 from top to bottom as raw
\* indices.
C13_TgaLayout ==
  TgaDone =>
    LET w == header.Width
        h == header.Height
        d == dst.data
    IN  /\ BytesWritten = 18 + 768 + w * h
        /\ Len(d) = 18 + 768 + w * h
        /\ d[1] = 0 /\ d[2] = 1 /\ d[3] = 1
        /\ LEValue(d, 3, 2) = 0
        /\ LEValue(d, 5, 2) = 256
        /\ d[8] = 24
        /\ LEValue(d, 8, 2) = 0
        /\ LEValue(d, 10, 2) = 0
        /\ d[17] = 8
        /\ d[18] = 32
        /\ \A i \in 0..255 :
             << d[18 + 3 * i + 1], d[18 + 3 * i + 2], d[18 + 3 * i + 3] >>
               = << Shown(i)[3], Shown(i)[2], Shown(i)[1] >>
        /\ \A y \in 0..(h - 1) : \A x \in 0..(w - 1) :
             d[18 + 768 + y * w + x + 1] = pixels[y * w + x + 1]

C13_Witness ==
  /\ TgaDone
  /\ header.Width = 2
  /\ header.Height = 2
  /\ pixels[1] # pixels[3]
  /\ Len(dst.data) = 790

\* the unsigned big-endian value of the n bytes at offset off of data
RECURSIVE BEValue(_, _, _)
BEValue(data, off, n) ==
  IF n = 0 THEN 0
  ELSE 256 * BEValue(data, off, n - 1) + data[off + n]

\* the chunks a PNG reader finds in d from offset off on: length, type and
\* payload of each; a chunk that does not fit into d is reported with the
\* type << >> and ends the list
RECURSIVE PngChunks(_, _)
PngChunks(d, off) ==
  IF off = Len(d) THEN << >>
  ELSE IF off + 12 > Len(d) \/ d[off + 1] > 0 \/ d[off + 2] > 0
    THEN << [type |-> << >>, data |-> << >>] >>
  ELSE LET len == BEValue(d, off, 4)
       IN  IF off + 12 + len > Len(d)
             THEN << [type |-> << >>, data |-> << >>] >>
             ELSE << [type |-> SubSeq(d, off + 5, off + 8),
                      data |-> SubSeq(d, off + 9, off + 8 + len)] >>
                  \o PngChunks(d, off + 12 + len)

\* a call with token PNG has returned after the destination took the whole
\* assembled buffer in the one write: the destination holds the buffer
PngWhole ==
  /\ pc = "done"
  /\ arg.cnv = "PNG"
  /\ Len(dst.ops) = 1
  /\ dst.ops[1].op = "write"
  /\ dst.ops[1].got = dst.ops[1].req
  /\ dst.ops[1].req > 0

\* C14: for every input and every mode of 8, 24 and 32, the PNG buffer is
\* the 8-byte signature followed by chunks in exactly this order: one IHDR,
\* then PLTE if and only if the mode is 8-bit, then tRNS (256 bytes, all 255
\* except byte 0 = 0) if and only if the mode is 8-bit and transparency is
\* enabled, then exactly one IDAT, then exactly one IEND with empty
\* payload; no other chunk appears.
C14_PngChunkOrder ==
  PngWhole =>
    LET d == dst.data
        chunks == PngChunks(d, 8)
        types == [k \in 1..Len(chunks) |-> chunks[k].type]
        n == Len(chunks)
    IN  /\ Len(d) >= 8
        /\ SubSeq(d, 1, 8) = << 137, 80, 78, 71, 13, 10, 26, 10 >>
        /\ types = << TypeIHDR >>
                   \o (IF g_default_PNG_Mode = 8 THEN << TypePLTE >> ELSE << >>)
                   \o (IF g_default_PNG_Mode = 8 /\ useTransparency
                         THEN << TypetRNS >> ELSE << >>)
                   \o << TypeIDAT, TypeIEND >>
        /\ chunks[n].data = << >>
        /\ \A k \in 1..n :
             chunks[k].type = TypetRNS =>
               chunks[k].data = << 0 >> \o [i \in 1..255 |-> 255]

C14_Witness ==
  /\ PngWhole
  /\ g_default_PNG_Mode = 8
  /\ useTransparency
  /\ Len(PngChunks(dst.data, 8)) = 5

\* what an inflater returns for a zlib stream of one stored block
Inflate(z) == SubSeq(z, 8, Len(z) - 4)

\* the payload of the first chunk of the given type in the buffer d
Payload(d, type) ==
  LET chunks == PngChunks(d, 8)
      k == CHOOSE k \in 1..Len(chunks) : chunks[k].type = type
  IN  chunks[k].data

\* C15: in the PNG encoder the IHDR colour type and the uncompressed
\* scanline stream agree with the mode: mode 8 gives colour type 3 and rows
\* of (0, index...) of length 1 + width; mode 24 gives colour type 2 and
\* rows of (0, R, G, B per pixel) of length 1 + 3 * width; mode 32 gives
\* colour type 6 and rows of (0, R, G, B, A per pixel) of length
\* 1 + 4 * width, where A = 0 exactly for pixels of index 0 when
\* transparency is enabled and A = 255 for every other pixel; bit depth is
\* always 8 and every row's filter byte is 0.
C15_PngModeAgrees ==
  PngWhole =>
    LET w == header.Width
        h == header.Height
        mode == g_default_PNG_Mode
        ihdr == Payload(dst.data, TypeIHDR)
        rows == Inflate(Payload(dst.data, TypeIDAT))
        bpp == CASE mode = 8 -> 1 [] mode = 24 -> 3 [] mode = 32 -> 4
        stride == 1 + bpp * w
        rgb(i) == << palette[i + 1][1], palette[i + 1][2], palette[i + 1][3] >>
    IN  /\ Len(ihdr) = 13
        /\ BEValue(ihdr, 0, 4) = w
        /\ BEValue(ihdr, 4, 4) = h
        /\ ihdr[9] = 8
        /\ ihdr[10] = (CASE mode = 8 -> 3 [] mode = 24 -> 2 [] mode = 32 -> 6)
        /\ Len(rows) = stride * h
        /\ \A y \in 0..(h - 1) :
             /\ rows[y * stride + 1] = 0
             /\ \A x \in 0..(w - 1) :
                  LET idx == pixels[y * w + x + 1]
                      at == y * stride + 1 + bpp * x
                  IN  /\ mode = 8 => rows[at + 1] = idx
                      /\ mode # 8 =>
                           << rows[at + 1], rows[at + 2], rows[at + 3] >> = rgb(idx)
                      /\ mode = 32 =>
                           rows[at + 4] = (IF useTransparency /\ idx = 0
                                             THEN 0 ELSE 255)

C15_Witness ==
  /\ PngWhole
  /\ g_default_PNG_Mode = 32
  /\ useTransparency
  /\ header.Width = 2
  /\ \E k \in 1..Len(pixels) : pixels[k] = 0
  /\ \E k \in 1..Len(pixels) : pixels[k] # 0

\* the calls of the given kind made on the destination stream
OpsOf(d, kind) == {i \in 1..Len(d.ops) : d.ops[i].op = kind}

\* C16: after a successful conversion the destination cursor depends on
\* the format. For BMP and TGA the last stream operation is a seek to
\* absolute offset 0, the only seek, and the cursor is at 0; a failing seek
\* makes the conversion fail. For PNG the assembled buffer is written with
\* a single write call and no seek is issued on the destination, so the
\* cursor is at the end of the written bytes.
C16_CursorAfterSuccess ==
  LET n == Len(dst.ops)
  IN  /\ (pc = "done" /\ res = 0 /\ arg.cnv \in {"BMP", "TGA", "TGA8"}) =>
           /\ n > 1
           /\ dst.ops[n] = [op |-> "seek", req |-> 0, got |-> 0]
           /\ OpsOf(dst, "seek") = {n}
           /\ OpsOf(dst, "write") = 1..(n - 1)
           /\ dst.pos = 0
      /\ (pc = "done" /\ arg.cnv \in {"BMP", "TGA", "TGA8"}
             /\ \E i \in OpsOf(dst, "seek") : dst.ops[i].got < 0) =>
           res = 1
      /\ (pc = "done" /\ res = 0 /\ arg.cnv = "PNG") =>
           /\ n = 1
           /\ dst.ops[1].op = "write"
           /\ dst.ops[1].req > 0
           /\ dst.pos = dst.ops[1].got
           /\ dst.pos = Len(dst.data)

C16_Witness ==
  /\ pc = "done"
  /\ res = 0
  /\ arg.cnv = "TGA8"
  /\ dst.pos = 0
  /\ Len(dst.data) = 18 + 768 + 4

\* C17: in the BMP and TGA encoders the first write call that reports fewer
\* bytes than requested ends the encode: it is the last call made on the
\* destination stream, no later write or seek is issued, and the encoder
\* returns failure, for a short write at any position (header field,
\* palette entry or pixel row).
C17_FirstShortWriteEnds ==
  (pc = "done" /\ arg.cnv \in {"BMP", "TGA", "TGA8"}) =>
    \A i \in OpsOf(dst, "write") :
      dst.ops[i].got < dst.ops[i].req =>
        /\ i = Len(dst.ops)
        /\ res = 1

\* a Targa encode ended by a short write of a palette entry
C17_Witness ==
  /\ pc = "done"
  /\ res = 1
  /\ arg.cnv = "TGA8"
  /\ Len(dst.ops) > 12
  /\ Len(dst.ops) <= 12 + 256
  /\ dst.ops[Len(dst.ops)].op = "write"
  /\ dst.ops[Len(dst.ops)].got < dst.ops[Len(dst.ops)].req

\* the encoder step of a BMP or Targa conversion that succeeds
BakedEncode ==
  /\ pc = "dispatch"
  /\ arg.cnv \in {"BMP", "TGA", "TGA8"}
  /\ pc' = "done"
  /\ res' = 0

\* C18: in BMP and TGA output, when transparency is enabled every colour
\* emitted for palette index 0 is black (0, 0, 0) and every other index
\* keeps the resolved palette's RGB; when transparency is disabled index 0
\* keeps its palette RGB too. The blackening is done on a local copy: the
\* palette held by the caller is unchanged after the encoder returns.
C18_IndexZeroBlack ==
  [][BakedEncode =>
       LET w == header.Width
           h == header.Height
           d == dst'.data
           rgb(i) == IF useTransparency /\ i = 0 THEN << 0, 0, 0 >>
                     ELSE SubSeq(palette[i + 1], 1, 3)
       IN  /\ palette' = palette
           /\ arg.cnv = "BMP" =>
                \A k \in 0..(h - 1) : \A x \in 0..(w - 1) :
                  LET at == 54 + k * ((Len(d) - 54) \div h) + 3 * x
                  IN  << d[at + 3], d[at + 2], d[at + 1] >>
                        = rgb(pixels[(h - 1 - k) * w + x + 1])
           /\ arg.cnv # "BMP" =>
                \A i \in 0..255 :
                  << d[18 + 3 * i + 3], d[18 + 3 * i + 2], d[18 + 3 * i + 1] >>
                    = rgb(i)
    ]_vars

\* a transparent image with an embedded palette whose entry 0 is not black
\* and whose first pixel has index 0 was written as a BMP
C18_Witness ==
  /\ pc = "done"
  /\ res = 0
  /\ arg.cnv = "BMP"
  /\ useTransparency
  /\ SubSeq(palette[1], 1, 3) # << 0, 0, 0 >>
  /\ pixels[1] = 0
  /\ SubSeq(dst.data, 55, 57) = << 0, 0, 0 >>

\* C19: the PNG output mode starts at 8-bit and, over any sequence of
\* configuration interactions and conversions, the mode used by a PNG
\* conversion is the value chosen by the most recent confirmed (OK)
\* interaction that had one of the three options selected, or 8-bit if
\* there was none; a cancelled interaction, an OK with no option selected
\* and any conversion leave the setting unchanged, and the setting is
\* always one of 8, 24 and 32.
C19_PngModeSetting ==
  /\ g_default_PNG_Mode = 8
  /\ [](/\ g_default_PNG_Mode \in {8, 24, 32}
        /\ g_default_PNG_Mode = chosen
        /\ PngWhole =>
             /\ Payload(dst.data, TypeIHDR)[10]
                  = (CASE chosen = 8 -> 3 [] chosen = 24 -> 2 [] chosen = 32 -> 6)
             /\ (chosen = 8) <=>
                  (\E k \in 1..Len(PngChunks(dst.data, 8)) :
                     PngChunks(dst.data, 8)[k].type = TypePLTE))
  /\ [][(pc # "idle" \/ pc' # "idle" \/ chosen' = chosen) =>
          g_default_PNG_Mode' = g_default_PNG_Mode]_vars

\* a 24-bit PNG has been written: an OK with the 24-bit option selected
\* changed the initial setting and a conversion has used it
C19_Witness ==
  /\ PngWhole
  /\ chosen = 24
  /\ g_default_PNG_Mode = 24
  /\ Payload(dst.data, TypeIHDR)[10] = 2

\* the name ends in ".pid" whatever the case of its letters: the text from
\* its last '.' to its end is '.', 'p', 'i', 'd'
EndsInDotPid(ss) ==
  /\ ~ss.null
  /\ \E k \in 1..Len(ss.chars) :
       /\ ss.chars[k] = 46
       /\ \A j \in (k + 1)..Len(ss.chars) : ss.chars[j] # 46
       /\ Len(ss.chars) = k + 3
       /\ ss.chars[k + 1] \in {112, 80}
       /\ ss.chars[k + 2] \in {105, 73}
       /\ ss.chars[k + 3] \in {100, 68}

\* C20: IsFileCompatible returns true exactly when the text from the last
\* '.' of the name to its end equals ".pid" ignoring case, and false for an
\* empty or null name, a name without a dot, ".PIDX" and ".png";
\* GetFileConvert uses the same predicate: it returns the 3 formats
\* BMP/bmp/"BMP", TGA/tga/"TGA8" and PNG/png/"PNG", each token accepted by
\* ConvertPID, exactly when IsFileCompatible is true for that name, and 0
\* formats otherwise.
C20_NamePredicate ==
  /\ compatible # -1 => (compatible = 1 <=> EndsInDotPid(nam))
  /\ compatible # -1 => compatible \in {0, 1}
  /\ list.NumFormats # -1 =>
       IF isCompatible(nam)
         THEN /\ list.NumFormats = 3
              /\ Len(list.List) = 3
              /\ << list.List[1].Ext, list.List[1].ID >> = << "bmp", "BMP" >>
              /\ << list.List[2].Ext, list.List[2].ID >> = << "tga", "TGA8" >>
              /\ << list.List[3].Ext, list.List[3].ID >> = << "png", "PNG" >>
              /\ \A k \in 1..3 : list.List[k].ID \in SupportedTokens
         ELSE list = EmptyList

\* during decoding every store is inside the raster: pos is the number of
\* cells stored and at most width * height, or the failure sentinel
StoresInside ==
  pc \in {"decode", "checkSize"} =>
    /\ Len(pixels) <= PixelsSize
    /\ pos = SIZE_MAX \/ (pos = Len(pixels) /\ pos <= PixelsSize)

\* every index the palette is looked up with is one of 0 .. 255
LookupsInside == \A k \in 1..Len(pixels) : pixels[k] \in 0..255

\* the loops of the transform and of the encoders, over 0 <= y < Height and
\* 0 <= x < Width, index only cells the raster has
LoopsInside ==
  /\ (pc = "flip" /\ (mirror \/ invert)) => RasterCovers
  /\ (pc = "dispatch" /\ arg.cnv \in SupportedTokens) => RasterCovers
  /\ pc # "fault"
  /\ \A i \in 1..Len(dst.ops) : dst.ops[i].op # "undefined"

\* C21: for every source stream, including malformed ones, every index
\* used to read or write the raster, the flipped raster, the palette and
\* the encoders' row buffers lies inside the buffer: during decoding
\* pos < width * height at each store, the transform and the encoders only
\* index 0 .. width * height - 1, and palette lookups only use 0 .. 255.
C21_IndicesInside ==
  /\ StoresInside
  /\ LookupsInside
  /\ LoopsInside

\* C22: after palette resolution the palette has 256 entries with alpha 255
\* for every entry except entry 0, whose alpha is 0 exactly when
\* transparency is enabled. With flag 0x80 set, entry i's (r, g, b) are the
\* source bytes size-768+3i, +3i+1, +3i+2, and the conversion fails if the
\* seek to 768 bytes before the end returns a negative position or any of
\* the 768 bytes cannot be read; with the flag clear the RGB of every entry
\* equals the compiled-in default palette.
C22_PaletteResolution ==
  [][pc = "palette" =>
       LET embedded == (header.Flags \div 128) % 2 = 1
           transparent == header.Flags % 2 = 1
           size == FileSize(file)
           sought == srcOps'[Len(srcOps) + 1]
           resolved ==
             /\ pc' = "seekPixels"
             /\ Len(palette') = 256
             /\ \A i \in 0..255 :
                  palette'[i + 1][4] = (IF i = 0 /\ transparent THEN 0 ELSE 255)
       IN  IF embedded
             THEN /\ Len(srcOps') > Len(srcOps)
                  /\ sought.op = "seek"
                  /\ << sought.at, sought.req >> = << -768, "soFromEnd" >>
                  /\ IF sought.got < 0
                       THEN pc' = "done" /\ res' = 1
                       ELSE /\ sought.got = size - 768
                            /\ IF Available(file, size - 768, 768) < 768
                                 THEN pc' = "done" /\ res' = 1
                                 ELSE /\ resolved
                                      /\ \A i \in 0..255 : \A c \in 0..2 :
                                           palette'[i + 1][c + 1]
                                             = FileByte(file, size - 768 + 3 * i + c)
             ELSE /\ resolved
                  /\ srcOps' = srcOps
                  /\ \A i \in 0..255 : \A c \in 1..3 :
                       palette'[i + 1][c] = defaultPalette[i + 1][c]
    ]_vars

\* the embedded palette of a transparent image has been read
C22_Witness ==
  /\ pc = "seekPixels"
  /\ header.Flags = 129
  /\ Len(palette) = 256
  /\ palette[1][4] = 0
  /\ palette[2][4] = 255
  /\ palette[2][1] = FileByte(file, FileSize(file) - 768 + 3)

\* the calls seek(32, soFromBeginning) in the log of the source stream
PixelSeeks ==
  {k \in 1..Len(srcOps) :
     /\ srcOps[k].op = "seek"
     /\ srcOps[k].at = 32
     /\ srcOps[k].req = "soFromBeginning"}

\* the place of the pixel-data seek in the log: behind the header read and,
\* with an embedded palette, the palette seek and the palette reads
AfterPalette == IF (header.Flags \div 128) % 2 = 1 THEN 4 ELSE 2

\* C23: on both palette paths a seek of the source stream to absolute
\* offset 32 is issued after palette resolution and before the first
\* decompression read, so the first control byte is always the byte at
\* offset 32; if that seek returns a negative position the conversion fails
\* without any decompression read.
C23_SeekBeforeDecoding ==
  /\ pc \in {"alloc", "decode", "checkSize", "flip", "dispatch"} =>
       /\ PixelSeeks = {AfterPalette}
       /\ srcOps[AfterPalette].got = 32
  /\ \A i \in 2..Len(srcOps) :
       srcOps[i].op = "read" =>
         /\ PixelSeeks = {AfterPalette}
         /\ AfterPalette < i
         /\ srcOps[AfterPalette].got = 32
         /\ srcOps[AfterPalette + 1].at = 32
         /\ \A j \in (AfterPalette + 1)..i : srcOps[j].op = "read"
  /\ \A k \in PixelSeeks :
       srcOps[k].got < 0 =>
         /\ k = Len(srcOps)
         /\ pc = "done"
         /\ res = 1

\* the first control byte has been read behind an embedded palette's reads
C23_Witness ==
  /\ (header.Flags \div 128) % 2 = 1
  /\ Len(srcOps) >= 5
  /\ srcOps[4].op = "seek"
  /\ srcOps[5].op = "read"
  /\ srcOps[5].at = 32
  /\ A = FileByte(file, 32)
  /\ Len(pixels) > 0

\* C24: for every image accepted by the header stage (Width > 0,
\* Height > 0, Width * Height <= 2^30), the width and height fields of the
\* Targa header written by SaveToTGA equal the image's Width and Height,
\* and the number of raster bytes that follow the palette equals the
\* product of those two header fields.
C24_TgaDimensions ==
  TgaDone =>
    /\ LEValue(dst.data, 12, 2) = header.Width
    /\ LEValue(dst.data, 14, 2) = header.Height
    /\ Len(dst.data) - 18 - 768
         = LEValue(dst.data, 12, 2) * LEValue(dst.data, 14, 2)

\* the chunk a reader finds at offset off of d: its declared length, its
\* type, its payload and the four bytes that follow the payload
ChunkAt(d, off) ==
  LET len == BEValue(d, off, 4)
  IN  [len |-> len,
       type |-> SubSeq(d, off + 5, off + 8),
       data |-> SubSeq(d, off + 9, off + 8 + len),
       crc |-> SubSeq(d, off + 9 + len, off + 12 + len)]

\* the offsets at which the chunks of d start, from offset off on
RECURSIVE ChunkOffsets(_, _)
ChunkOffsets(d, off) ==
  IF off + 12 > Len(d) \/ d[off + 1] > 0 \/ d[off + 2] > 0 THEN {}
  ELSE {off} \cup ChunkOffsets(d, off + 12 + BEValue(d, off, 4))

\* C25: every PNG chunk is framed as 4-byte big-endian payload length,
\* 4-byte type, payload, 4-byte big-endian CRC; the CRC obtained in two
\* steps, crc32_png(type, 4) and then crc32_png(payload, len, previous),
\* equals the one-shot crc32_png over type followed by payload; for a
\* zero-length payload (IEND) the CRC is that of the 4 type bytes alone; and
\* crc32_png called with len = 0 returns the bitwise complement of the crc
\* argument it was given.
C25_ChunkFraming ==
  PngWhole =>
    LET d == dst.data
        offs == ChunkOffsets(d, 8)
        last == CHOOSE o \in offs : \A q \in offs : q <= o
    IN  /\ offs # {}
        /\ last + 12 + BEValue(d, last, 4) = Len(d)
        /\ \A o \in offs :
             LET c == ChunkAt(d, o)
                 first == crc32_png(c.type, << 0, 0 >>)
                 oneShot == crc32_png(c.type \o c.data, << 0, 0 >>)
             IN  /\ o + 12 + c.len <= Len(d)
                 /\ Len(c.data) = c.len
                 /\ c.crc = BE32(oneShot)
                 /\ c.len > 0 => crc32_png(c.data, first) = oneShot
                 /\ c.len = 0 => c.crc = BE32(first)
                 /\ crc32_png(<< >>, first) = Not32(first)
                 /\ crc32_png(<< >>, oneShot) = Not32(oneShot)

C25_Witness ==
  /\ PngWhole
  /\ g_default_PNG_Mode = 8
  /\ useTransparency
  /\ Cardinality(ChunkOffsets(dst.data, 8)) = 5
  /\ \E o \in ChunkOffsets(dst.data, 8) :
       /\ ChunkAt(dst.data, o).type = TypeIEND
       /\ ChunkAt(dst.data, o).len = 0
       /\ ChunkAt(dst.data, o).crc = << 174, 66, 96, 130 >>

\* C26: when a configuration change (ConfigDlgProc IDOK) runs concurrently
\* with a PNG conversion, the PNG produced has an IHDR colour type,
\* PLTE/tRNS presence and IDAT scanline layout that all correspond to one
\* single mode, never a mixture.
C26_OneModeOnly ==
  PngWhole =>
    \E mode \in {8, 24, 32} :
      dst.data = PngBuffer(pixels, header.Width, header.Height, palette,
                           useTransparency, mode)

\* the most recent call on the source stream was a read that failed
ReadFailed(ops) ==
  /\ Len(ops) > 0
  /\ ops[Len(ops)].op = "read"
  /\ ops[Len(ops)].got < ops[Len(ops)].req

\* C27: for every finite source stream and both grammars, each iteration of
\* the outer decoding loop either consumes at least one source byte or ends
\* the loop (a control byte A = 0 in grammar A is consumed and emits
\* nothing), the source is read strictly forward one byte at a time with no
\* seek during decoding, and the loop ends as soon as width * height
\* indices have been produced or a read fails.
C27_DecodingEnds ==
  [][/\ pc = "decode" =>
          /\ srcPos' > srcPos \/ pc' # "decode"
          /\ srcPos' >= srcPos
          /\ Len(srcOps') > Len(srcOps)
          /\ SubSeq(srcOps', 1, Len(srcOps)) = srcOps
          /\ \A i \in (Len(srcOps) + 1)..Len(srcOps') :
               /\ srcOps'[i].op = "read"
               /\ srcOps'[i].req = 1
               /\ srcOps'[i].at = srcPos + (i - Len(srcOps) - 1)
               /\ i < Len(srcOps') => srcOps'[i].got = 1
          /\ srcPos' = srcPos + Cardinality({i \in (Len(srcOps) + 1)..Len(srcOps') :
                                               srcOps'[i].got = 1})
          /\ (rleCompression /\ A' = 0 /\ ~ReadFailed(srcOps'))
               => (srcPos' = srcPos + 1 /\ pixels' = pixels)
          /\ pc' = "decode" =>
               (~ReadFailed(srcOps')
                /\ ~ProductIs(header.Width, header.Height, Len(pixels')))
     /\ (pc \in {"alloc", "decode"} /\ pc' = "checkSize") =>
          \/ ProductIs(header.Width, header.Height, Len(pixels'))
          \/ ReadFailed(srcOps')
    ]_vars

\* the same with pixels.size() as the number of indices that ends the loop
DecodingEndsAtSize ==
  [][(pc \in {"alloc", "decode"} /\ pc' \in {"decode", "checkSize"}) =>
       (pc' = "checkSize" <=> (Len(pixels') = PixelsSize \/ (pc = "decode" /\ ReadFailed(srcOps'))))
    ]_vars

\* the stages of a call before the encoder is chosen
BeforeDispatch ==
  {"enter", "readHeader", "validate", "palette", "seekPixels", "alloc",
   "decode", "checkSize", "flip"}

\* C28: no operation is performed on the destination stream until the
\* header, palette, pixel-data seek, decompression and orientation stages
\* have all succeeded: whenever ConvertPID fails in any of those stages, or
\* rejects the format token, the destination stream has received zero
\* writes and zero seeks; and ConvertPID never writes to the source stream
\* nor reads from the destination stream.
C28_DestinationUntouched ==
  [][/\ pc \in BeforeDispatch => (dst.ops = << >> /\ dst' = dst)
     /\ (pc = "dispatch" /\ arg.cnv \notin SupportedTokens) =>
          (dst.ops = << >> /\ dst' = dst /\ pc' = "done" /\ res' = 1)
     /\ pc \notin {"idle", "done", "fault"} =>
          /\ file' = file
          /\ \A i \in 1..Len(srcOps') : srcOps'[i].op \in {"read", "reads", "seek"}
          /\ \A i \in 1..Len(dst'.ops) : dst'.ops[i].op # "read"
    ]_vars

C28_Witness ==
  /\ pc = "done"
  /\ res = 1
  /\ arg.cnv \notin SupportedTokens
  /\ Len(srcOps) > 2
  /\ Len(pixels) = PixelsSize
  /\ dst.ops = << >>
  /\ dst.data = << >>

\* f and g differ at most in the four reserved header fields and in bits of
\* Flags other than 0x01, 0x08, 0x10, 0x20 and 0x80
SameButIgnored(f, g) ==
  /\ [f EXCEPT !.Flags = 0, !.U = << >>] = [g EXCEPT !.Flags = 0, !.U = << >>]
  /\ \A m \in TestedBits : FlagSet(f.Flags, m) = FlagSet(g.Flags, m)

\* C29: the result of a conversion (return value and every byte written to
\* the destination) depends on the header only through the magic, Width,
\* Height and the flag bits 0x01, 0x08, 0x10, 0x20, 0x80: two source
\* streams that differ only in the four reserved header fields and/or in
\* other bits of Flags, converted with the same token and the same PNG
\* mode, give identical results.
C29_IgnoredHeaderBits ==
  (/\ Granted
   /\ earlier.seen
   /\ SameButIgnored(earlier.file, file)
   /\ earlier.cnv = arg.cnv
   /\ earlier.mode = g_default_PNG_Mode)
    => (res = earlier.res /\ dst = earlier.dst)

C29_Witness ==
  /\ Granted
  /\ earlier.seen
  /\ SameButIgnored(earlier.file, file)
  /\ earlier.file # file
  /\ file.U # << 0, 0, 0, 0 >>
  /\ FlagSet(file.Flags, 2)
  /\ earlier.cnv = arg.cnv
  /\ earlier.mode = g_default_PNG_Mode
  /\ g_default_PNG_Mode = 32
  /\ arg.cnv = "PNG"
  /\ res = 0
  /\ Len(dst.data) > HeaderSize

\* the number of indices the run with control byte c declares
Declared(c) ==
  IF rleCompression THEN (IF c > 128 THEN c - 128 ELSE c)
  ELSE (IF c > 192 THEN c - 192 ELSE 1)

\* the source bytes a run with control byte c takes, its control byte
\* included, when it stores n indices
Taken(c, n) ==
  IF rleCompression THEN (IF c > 128 THEN 1 ELSE 1 + n)
  ELSE (IF c > 192 THEN 2 ELSE 1)

\* the index the run with control byte c stores in its k-th cell, the
\* control byte being at offset at
Stored(c, at, k) ==
  IF rleCompression THEN (IF c > 128 THEN 0 ELSE FileByte(file, at + k))
  ELSE (IF c > 192 THEN FileByte(file, at + 1) ELSE c)

\* C30: a run whose declared count exceeds the number of raster cells still
\* unfilled is clipped rather than rejected: for a grammar-A fill run, a
\* grammar-A literal run and a grammar-B repeat run alike, the decoder
\* stores only as many indices as cells remain (a literal run then reads
\* only that many source bytes), decoding ends with exactly width * height
\* indices, and the conversion succeeds even though source bytes after that
\* point, including the rest of the run, are never read.
C30_RunsClipped ==
  [][/\ (/\ pc = "decode"
         /\ SrcRemaining(file, srcPos) >= 1
         /\ Declared(FileByte(file, srcPos)) > PixelsSize - pos
         /\ SrcRemaining(file, srcPos)
              >= Taken(FileByte(file, srcPos), PixelsSize - pos))
          => LET c == FileByte(file, srcPos)
                 left == PixelsSize - pos
             IN  /\ pc' = "checkSize"
                 /\ pos' = PixelsSize
                 /\ Len(pixels') = PixelsSize
                 /\ ProductIs(header.Width, header.Height, Len(pixels'))
                 /\ SubSeq(pixels', 1, pos) = pixels
                 /\ \A k \in 1..left : pixels'[pos + k] = Stored(c, srcPos, k)
                 /\ srcPos' = srcPos + Taken(c, left)
                 /\ Len(srcOps') = Len(srcOps) + Taken(c, left)
     /\ (pc = "checkSize" /\ pos = PixelsSize) => pc' = "flip"
     /\ pc \in {"flip", "dispatch"} => (srcPos' = srcPos /\ srcOps' = srcOps)
     /\ (/\ pc \in {"flip", "dispatch"}
         /\ ProductIs(header.Width, header.Height, Len(pixels))
         /\ pc' = "done"
         /\ arg.cnv \in SupportedTokens
         /\ Granted')
          => res' = 0
    ]_vars

====
